---- MODULE Spec2Model ----
(***************************************************************************)
(* Dietary-Advisor-Chatbot: the nutrition comparison engine                *)
(* (NutritionAnalyzer), the retrieval query builder (RAGChain.create_query)*)
(* the cached USDA client (APIClient.make_request) and the command-line    *)
(* program that uses them (main).                                          *)
(*                                                                         *)
(* Amounts are whole grams, Python ints (as in the analyzer's own example   *)
(* data) or floats of whole value.  A score is a Python float, computed    *)
(* bit for bit.  A Python dict is a TLA+ record; a key the dict lacks is a *)
(* field the record lacks.                                                 *)
(***************************************************************************)
EXTENDS Integers, Sequences, FiniteSets, TLC

VARIABLES
    analyzer,   \* the NutritionAnalyzer object: its three thresholds
    call,       \* the operation invoked and its arguments ("idle" before any)
    ret,        \* what the operation returned or raised
    cache,      \* APIClient.cache: cache key -> stored response
    frame,      \* per caller, where it is in make_request and its locals
    requests,   \* the external requests issued so far, in order
    history,    \* the finished client operations, in order
    prog        \* main(): where it is, its locals, and the lines its last step printed

analyzerVars == <<analyzer, call, ret>>
clientVars == <<cache, frame, requests, history>>
vars == <<analyzer, call, ret, cache, frame, requests, history, prog>>

-----------------------------------------------------------------------------
(* Bounds of the model *)

MaxAmount == 2      \* grid foods have protein, carbs, fat in 0..MaxAmount
MaxCands == 3       \* longest candidate list handed to top_n_alternatives
MaxTopN == 3        \* largest top_n
MaxFoods == 2       \* longest food list handed to create_query
MaxOps == 3         \* client operations (make_request, clear_cache) per run
MaxDocs == 3        \* most documents the retriever hands to find_alternatives

-----------------------------------------------------------------------------
(* Python helpers *)

\* dict.get(key, default)
Get(d, key, default) == IF key \in DOMAIN d THEN d[key] ELSE default

\* an optional value: None, or Some(v)
None == <<>>
Some(v) == << v >>

\* dict.get(key) with no default: Some(value), or None when the key is absent
GetOrNone(d, key) == IF key \in DOMAIN d THEN Some(d[key]) ELSE None

\* d with d[key] = value done, whether or not d had the key
WithKey(d, key, value) ==
    [k \in DOMAIN d \cup {key} |-> IF k = key THEN value ELSE d[k]]

\* max(a, b)
Max(a, b) == IF a >= b THEN a ELSE b

Min(a, b) == IF a <= b THEN a ELSE b

\* sep.join(parts)
RECURSIVE Join(_, _)
Join(parts, sep) ==
    IF parts = <<>> THEN ""
    ELSE IF Len(parts) = 1 THEN parts[1]
    ELSE parts[1] \o sep \o Join(Tail(parts), sep)

\* A Python number is kept as a whole number.  A dict, or an object with number
\* fields, that holds floats names them in a field `floats`: the keys whose
\* value is a float (12.0); every other number in it is an int (12).  Without
\* the field every number is an int.
IsFloat(d, key) == key \in Get(d, "floats", {})

\* d, holding floats under `keys`
WithFloats(d, keys) == IF keys = {} THEN d ELSE WithKey(d, "floats", keys)

\* type(d[key]).__name__ of a number
TypeName(d, key) == IF IsFloat(d, key) THEN "float" ELSE "int"

\* f"{n}" for a number n: 13 for an int, 13.0 for a float
Format(n, is_float) == IF is_float THEN ToString(n) \o ".0" ELSE ToString(n)

\* Python's == between a string and a value of any type (a string equals no
\* number, dict or list): the values are compared by their text
SameValue(a, b) == ToString(a) = ToString(b)

\* a fraction a/b with b > 0, compared exactly: the ratios and thresholds of
\* is_better
Frac(n, d) == [num |-> n, den |-> d]
FracGT(x, y) == x.num * y.den > y.num * x.den

-----------------------------------------------------------------------------
(* Python floats: IEEE 754 binary64 with round-half-to-even, computed on     *)
(* naturals of any size held as sequences of 15-bit limbs, lowest limb first *)

LimbBits == 15
MantissaBits == 53      \* significant bits of a binary64
QuotientShift == 75     \* bits a dividend is shifted by before it is divided

RECURSIVE Doubled(_)
Doubled(k) == IF k = 0 THEN 1 ELSE 2 * Doubled(k - 1)

\* 2^k for k up to LimbBits
Pow2Table == [k \in 0 .. LimbBits |-> Doubled(k)]
Pow2(k) == Pow2Table[k]

Base == Pow2(LimbBits)

\* the number of bits of a limb
BitsOf(n) == CHOOSE k \in 0 .. LimbBits : (k = 0 \/ Pow2(k - 1) <= n) /\ n < Pow2(k)

\* a natural without its zero limbs at the high end
RECURSIVE BigTrim(_)
BigTrim(a) ==
    IF a = <<>> THEN <<>>
    ELSE IF a[Len(a)] = 0 THEN BigTrim(SubSeq(a, 1, Len(a) - 1))
    ELSE a

RECURSIVE BigFromInt(_)
BigFromInt(n) == IF n = 0 THEN <<>> ELSE << n % Base >> \o BigFromInt(n \div Base)

BigLimb(a, i) == IF 1 <= i /\ i <= Len(a) THEN a[i] ELSE 0

BigRest(a) == IF a = <<>> THEN <<>> ELSE Tail(a)

BigBitLen(a) == IF a = <<>> THEN 0 ELSE LimbBits * (Len(a) - 1) + BitsOf(a[Len(a)])

\* a * m + carry for a factor m below Base
RECURSIVE BigMulSmall(_, _, _)
BigMulSmall(a, m, carry) ==
    IF a = <<>> THEN BigFromInt(carry)
    ELSE LET t == a[1] * m + carry
         IN  << t % Base >> \o BigMulSmall(Tail(a), m, t \div Base)

\* quotient and remainder of a by a divisor d below Base
RECURSIVE BigDivSmall(_, _)
BigDivSmall(a, d) ==
    IF a = <<>> THEN [quot |-> <<>>, rem |-> 0]
    ELSE LET high == BigDivSmall(Tail(a), d)
             t == high.rem * Base + a[1]
         IN  [quot |-> << t \div d >> \o high.quot, rem |-> t % d]

\* a * 2^k: limb i takes the low bits of limb i - q and the high bits of the
\* limb below it, for k = q * LimbBits + r
BigShl(a, k) ==
    IF a = <<>> THEN <<>>
    ELSE LET q == k \div LimbBits
             r == k % LimbBits
             low == Pow2(LimbBits - r)
         IN  BigTrim([i \in 1 .. Len(a) + q + 1 |->
                        (BigLimb(a, i - q) % low) * Pow2(r)
                            + BigLimb(a, i - q - 1) \div low])

\* a \div 2^k
BigShr(a, k) ==
    LET q == k \div LimbBits
        r == k % LimbBits
    IN  IF q >= Len(a) THEN <<>>
        ELSE BigTrim([i \in 1 .. Len(a) - q |->
                        a[i + q] \div Pow2(r)
                            + (BigLimb(a, i + q + 1) % Pow2(r)) * Pow2(LimbBits - r)])

\* bit i of a, bit 0 being the lowest
BigBit(a, i) == (BigLimb(a, i \div LimbBits + 1) \div Pow2(i % LimbBits)) % 2

\* the bits of a below bit i are all 0
BigLowZero(a, i) ==
    /\ \A j \in 1 .. i \div LimbBits : BigLimb(a, j) = 0
    /\ BigLimb(a, i \div LimbBits + 1) % Pow2(i % LimbBits) = 0

RECURSIVE BigAddCarry(_, _, _)
BigAddCarry(a, b, carry) ==
    IF a = <<>> /\ b = <<>> THEN BigFromInt(carry)
    ELSE LET t == BigLimb(a, 1) + BigLimb(b, 1) + carry
         IN  << t % Base >> \o BigAddCarry(BigRest(a), BigRest(b), t \div Base)

BigAdd(a, b) == BigAddCarry(a, b, 0)

\* a - b - borrow, for a >= b + borrow
RECURSIVE BigSubBorrow(_, _, _)
BigSubBorrow(a, b, borrow) ==
    IF a = <<>> THEN <<>>
    ELSE LET t == a[1] - BigLimb(b, 1) - borrow
         IN  IF t < 0 THEN << t + Base >> \o BigSubBorrow(Tail(a), BigRest(b), 1)
             ELSE << t >> \o BigSubBorrow(Tail(a), BigRest(b), 0)

BigSub(a, b) == BigTrim(BigSubBorrow(a, b, 0))

\* -1, 0 or 1 as a is below, equal to or above b, from limb i downwards
RECURSIVE BigCmpFrom(_, _, _)
BigCmpFrom(a, b, i) ==
    IF i = 0 THEN 0
    ELSE IF a[i] > b[i] THEN 1
    ELSE IF a[i] < b[i] THEN -1
    ELSE BigCmpFrom(a, b, i - 1)

BigCmp(a, b) ==
    IF Len(a) > Len(b) THEN 1
    ELSE IF Len(a) < Len(b) THEN -1
    ELSE BigCmpFrom(a, b, Len(a))

RECURSIVE BigMulFrom(_, _)
BigMulFrom(a, b) ==
    IF b = <<>> THEN <<>>
    ELSE BigAdd(BigMulSmall(a, b[1], 0), << 0 >> \o BigMulFrom(a, Tail(b)))

BigMul(a, b) == BigTrim(BigMulFrom(a, b))

\* a float: sign * mant * 2^exp with mant of exactly MantissaBits bits; 0.0 is
\* FloatZero.  Equal floats are equal records.
FloatZero == [sign |-> 0, mant |-> <<>>, exp |-> 0]

\* q, which is X without its sh lowest bits, rounded to the nearest: one is
\* added when the dropped bits are above a half, or are a half and q is odd;
\* `inexact` says that a fraction in (0, 1) was dropped from X before
RoundedQuotient(X, sh, q, inexact) ==
    IF /\ BigBit(X, sh - 1) = 1
       /\ (~ (BigLowZero(X, sh - 1) /\ ~ inexact) \/ BigBit(q, 0) = 1)
    THEN BigAdd(q, << 1 >>)
    ELSE q

\* the float sign * r * 2^e for r of MantissaBits bits, or of one bit more
\* after a rounding that carried
Normalised(sign, r, e) ==
    IF BigBitLen(r) > MantissaBits
    THEN [sign |-> sign, mant |-> BigShr(r, 1), exp |-> e + 1]
    ELSE [sign |-> sign, mant |-> r, exp |-> e]

\* RoundToFloat for an X that is sh bits longer than a mantissa
RoundBy(sign, X, e, inexact, sh) ==
    IF sh <= 0
    THEN [sign |-> sign, mant |-> BigShl(X, -sh), exp |-> e + sh]
    ELSE Normalised(sign, RoundedQuotient(X, sh, BigShr(X, sh), inexact), e + sh)

\* the float nearest to sign * (X + fraction) * 2^e, ties to the even mantissa;
\* `inexact` says that a fraction in (0, 1) was dropped from X
RoundToFloat(sign, X, e, inexact) ==
    RoundBy(sign, X, e, inexact, BigBitLen(X) - MantissaBits)

\* the float of sign * (quot + rem / d) * 2^-QuotientShift
FloatOfDivision(sign, division) ==
    RoundToFloat(sign, BigTrim(division.quot), -QuotientShift, division.rem # 0)

\* n / d of Python for whole n and d with d > 0: the float nearest the quotient
FloatDiv(n, d) ==
    IF n = 0 THEN FloatZero
    ELSE FloatOfDivision(IF n < 0 THEN -1 ELSE 1,
                         BigDivSmall(BigShl(BigFromInt(IF n < 0 THEN -n ELSE n),
                                            QuotientShift), d))

\* x * y
FloatMul(x, y) ==
    IF x.sign = 0 \/ y.sign = 0 THEN FloatZero
    ELSE RoundToFloat(x.sign * y.sign, BigMul(x.mant, y.mant), x.exp + y.exp, FALSE)

\* the sign and the size of xsign * X + ysign * Y, the signs not being 0;
\* `order` is BigCmp(X, Y)
SignedSum(xsign, X, ysign, Y, order) ==
    IF xsign = ysign THEN [sign |-> xsign, size |-> BigAdd(X, Y)]
    ELSE IF order = 0 THEN [sign |-> 0, size |-> <<>>]
    ELSE IF order > 0 THEN [sign |-> xsign, size |-> BigSub(X, Y)]
    ELSE [sign |-> ysign, size |-> BigSub(Y, X)]

\* the float nearest to sum.sign * sum.size * 2^e
FloatOfSum(sum, e) ==
    IF sum.sign = 0 THEN FloatZero ELSE RoundToFloat(sum.sign, sum.size, e, FALSE)

\* x + y for x = xsign * X * 2^e and y = ysign * Y * 2^e
FloatAddAligned(xsign, X, ysign, Y, e) ==
    FloatOfSum(SignedSum(xsign, X, ysign, Y, BigCmp(X, Y)), e)

\* x + y for x and y not 0, e being the lower of their exponents
FloatAddAt(x, y, e) ==
    FloatAddAligned(x.sign, BigShl(x.mant, x.exp - e), y.sign, BigShl(y.mant, y.exp - e), e)

\* x + y
FloatAdd(x, y) ==
    IF x.sign = 0 THEN y
    ELSE IF y.sign = 0 THEN x
    ELSE FloatAddAt(x, y, Min(x.exp, y.exp))

\* x > y
FloatGT(x, y) ==
    IF x.sign # y.sign THEN x.sign > y.sign
    ELSE IF x.sign = 0 THEN FALSE
    ELSE LET order == IF x.exp > y.exp THEN 1
                      ELSE IF x.exp < y.exp THEN -1
                      ELSE BigCmp(x.mant, y.mant)
         IN  x.sign * order > 0

\* x >= y
FloatGE(x, y) == x = y \/ FloatGT(x, y)

-----------------------------------------------------------------------------
(* NutritionAnalyzer *)

DefaultMinProteinIncrease == 3
DefaultMaxCarbRatio == Frac(8, 10)
DefaultMaxFatRatio == Frac(8, 10)

\* NutritionAnalyzer.__init__
NutritionAnalyzer(min_protein_increase, max_carb_ratio, max_fat_ratio) ==
    [min_protein_increase |-> min_protein_increase,
     max_carb_ratio |-> max_carb_ratio,
     max_fat_ratio |-> max_fat_ratio]

DefaultAnalyzer ==
    NutritionAnalyzer(DefaultMinProteinIncrease, DefaultMaxCarbRatio, DefaultMaxFatRatio)

\* is_better with the protein rule weakened to "any increase at all"
is_better_AnyIncrease(self, original, alternative) ==
    LET orig_protein == Get(original, "protein", 0)
        orig_carbs == Get(original, "carbs", 0)
        orig_fat == Get(original, "fat", 0)
        alt_protein == Get(alternative, "protein", 0)
        alt_carbs == Get(alternative, "carbs", 0)
        alt_fat == Get(alternative, "fat", 0)
        protein_increase == alt_protein - orig_protein
    IN  IF protein_increase <= 0 THEN FALSE
        ELSE IF orig_carbs > 0 /\ FracGT(Frac(alt_carbs, orig_carbs), self.max_carb_ratio)
             THEN FALSE
        ELSE IF orig_fat > 0 /\ FracGT(Frac(alt_fat, orig_fat), self.max_fat_ratio)
             THEN FALSE
        ELSE TRUE

\* is_better without the "original amount > 0" guards: the ratio rules are
\* applied as alt > ratio * orig even when the original amount is 0
is_better_NoZeroGuard(self, original, alternative) ==
    LET orig_protein == Get(original, "protein", 0)
        orig_carbs == Get(original, "carbs", 0)
        orig_fat == Get(original, "fat", 0)
        alt_protein == Get(alternative, "protein", 0)
        alt_carbs == Get(alternative, "carbs", 0)
        alt_fat == Get(alternative, "fat", 0)
        protein_increase == alt_protein - orig_protein
    IN  IF protein_increase < self.min_protein_increase THEN FALSE
        ELSE IF FracGT(Frac(alt_carbs, orig_carbs), self.max_carb_ratio) THEN FALSE
        ELSE IF FracGT(Frac(alt_fat, orig_fat), self.max_fat_ratio) THEN FALSE
        ELSE TRUE

\* is_better with exclusive bounds: an increase equal to the minimum, or a
\* ratio equal to the maximum, is rejected
is_better_Exclusive(self, original, alternative) ==
    LET orig_protein == Get(original, "protein", 0)
        orig_carbs == Get(original, "carbs", 0)
        orig_fat == Get(original, "fat", 0)
        alt_protein == Get(alternative, "protein", 0)
        alt_carbs == Get(alternative, "carbs", 0)
        alt_fat == Get(alternative, "fat", 0)
        protein_increase == alt_protein - orig_protein
    IN  IF protein_increase <= self.min_protein_increase THEN FALSE
        ELSE IF orig_carbs > 0 /\ ~ FracGT(self.max_carb_ratio, Frac(alt_carbs, orig_carbs))
             THEN FALSE
        ELSE IF orig_fat > 0 /\ ~ FracGT(self.max_fat_ratio, Frac(alt_fat, orig_fat))
             THEN FALSE
        ELSE TRUE

\* is_better without the carbohydrate rule
is_better_NoCarbRule(self, original, alternative) ==
    LET orig_protein == Get(original, "protein", 0)
        orig_fat == Get(original, "fat", 0)
        alt_protein == Get(alternative, "protein", 0)
        alt_fat == Get(alternative, "fat", 0)
        protein_increase == alt_protein - orig_protein
    IN  IF protein_increase < self.min_protein_increase THEN FALSE
        ELSE IF orig_fat > 0 /\ FracGT(Frac(alt_fat, orig_fat), self.max_fat_ratio)
             THEN FALSE
        ELSE TRUE

\* NutritionAnalyzer.is_better
is_better(self, original, alternative) ==
    LET orig_protein == Get(original, "protein", 0)
        orig_carbs == Get(original, "carbs", 0)
        orig_fat == Get(original, "fat", 0)
        alt_protein == Get(alternative, "protein", 0)
        alt_carbs == Get(alternative, "carbs", 0)
        alt_fat == Get(alternative, "fat", 0)
        protein_increase == alt_protein - orig_protein
    IN  IF protein_increase < self.min_protein_increase THEN FALSE
        ELSE IF orig_carbs > 0 /\ FracGT(Frac(alt_carbs, orig_carbs), self.max_carb_ratio)
             THEN FALSE
        ELSE IF orig_fat > 0 /\ FracGT(Frac(alt_fat, orig_fat), self.max_fat_ratio)
             THEN FALSE
        ELSE TRUE

ProteinWeight == 4    \* 0.4, in tenths
CarbWeight == 3       \* 0.3
FatWeight == 3        \* 0.3
WeightDen == 10

\* the reasoning text with "delta >= 0" in place of "delta > 0"
Reasoning_NonNegative(protein_improvement, carb_improvement, fat_improvement, floats) ==
    LET reasons ==
            (IF protein_improvement >= 0
                THEN << "+" \o Format(protein_improvement, "protein_diff" \in floats) \o "g protein" >> ELSE <<>>)
            \o (IF carb_improvement >= 0
                THEN << "-" \o Format(carb_improvement, "carb_diff" \in floats) \o "g carbs" >> ELSE <<>>)
            \o (IF fat_improvement >= 0
                THEN << "-" \o Format(fat_improvement, "fat_diff" \in floats) \o "g fat" >> ELSE <<>>)
    IN  IF reasons # <<>> THEN Join(reasons, ", ") ELSE "Similar nutrition"

\* the reasoning text listing fat before carbs
Reasoning_FatFirst(protein_improvement, carb_improvement, fat_improvement, floats) ==
    LET reasons ==
            (IF protein_improvement > 0
                THEN << "+" \o Format(protein_improvement, "protein_diff" \in floats) \o "g protein" >> ELSE <<>>)
            \o (IF fat_improvement > 0
                THEN << "-" \o Format(fat_improvement, "fat_diff" \in floats) \o "g fat" >> ELSE <<>>)
            \o (IF carb_improvement > 0
                THEN << "-" \o Format(carb_improvement, "carb_diff" \in floats) \o "g carbs" >> ELSE <<>>)
    IN  IF reasons # <<>> THEN Join(reasons, ", ") ELSE "Similar nutrition"

\* the reasoning text of score_alternative
Reasoning(protein_improvement, carb_improvement, fat_improvement, floats) ==
    LET reasons ==
            (IF protein_improvement > 0
                THEN << "+" \o Format(protein_improvement, "protein_diff" \in floats) \o "g protein" >> ELSE <<>>)
            \o (IF carb_improvement > 0
                THEN << "-" \o Format(carb_improvement, "carb_diff" \in floats) \o "g carbs" >> ELSE <<>>)
            \o (IF fat_improvement > 0
                THEN << "-" \o Format(fat_improvement, "fat_diff" \in floats) \o "g fat" >> ELSE <<>>)
    IN  IF reasons # <<>> THEN Join(reasons, ", ") ELSE "Similar nutrition"

\* the float literals 0.4, 0.3 and 0.3
ProteinWeightFloat == FloatDiv(ProteinWeight, WeightDen)
CarbWeightFloat == FloatDiv(CarbWeight, WeightDen)
FatWeightFloat == FloatDiv(FatWeight, WeightDen)

\* the overall score with the protein and carbohydrate weights exchanged
OverallScore_SwappedWeights(protein_improvement, carb_improvement, fat_improvement, P, C, F) ==
    LET protein_score == FloatMul(FloatDiv(protein_improvement, P), CarbWeightFloat)
        carb_score == FloatMul(FloatDiv(carb_improvement, C), ProteinWeightFloat)
        fat_score == FloatMul(FloatDiv(fat_improvement, F), FatWeightFloat)
    IN  FloatAdd(FloatAdd(protein_score, carb_score), fat_score)

\* protein_score + carb_score + fat_score, each (improvement / divisor) * weight,
\* in float arithmetic and in the order the code evaluates them
OverallScore(protein_improvement, carb_improvement, fat_improvement, P, C, F) ==
    LET protein_score == FloatMul(FloatDiv(protein_improvement, P), ProteinWeightFloat)
        carb_score == FloatMul(FloatDiv(carb_improvement, C), CarbWeightFloat)
        fat_score == FloatMul(FloatDiv(fat_improvement, F), FatWeightFloat)
    IN  FloatAdd(FloatAdd(protein_score, carb_score), fat_score)

\* the deltas that are floats: a difference is a float when either amount is,
\* and the 0 that stands in for a missing key is an int
DiffFloats(original, alternative) ==
    (IF IsFloat(alternative, "protein") \/ IsFloat(original, "protein")
        THEN { "protein_diff" } ELSE {})
    \cup (IF IsFloat(original, "carbs") \/ IsFloat(alternative, "carbs")
        THEN { "carb_diff" } ELSE {})
    \cup (IF IsFloat(original, "fat") \/ IsFloat(alternative, "fat")
        THEN { "fat_diff" } ELSE {})

\* score_alternative with the carb delta taken as alternative minus original
score_alternative_CarbSign(self, original, alternative) ==
    LET orig_protein == Get(original, "protein", 0)
        orig_carbs == Get(original, "carbs", 0)
        orig_fat == Get(original, "fat", 0)
        alt_protein == Get(alternative, "protein", 0)
        alt_carbs == Get(alternative, "carbs", 0)
        alt_fat == Get(alternative, "fat", 0)
        protein_improvement == alt_protein - orig_protein
        carb_improvement == alt_carbs - orig_carbs
        fat_improvement == orig_fat - alt_fat
        floats == DiffFloats(original, alternative)
    IN  WithFloats(
            [protein_diff |-> protein_improvement,
             carb_diff |-> carb_improvement,
             fat_diff |-> fat_improvement,
             overall_score |->
                OverallScore(protein_improvement, carb_improvement, fat_improvement,
                             Max(orig_protein, 1), Max(orig_carbs, 1), Max(orig_fat, 1)),
             reasoning |->
                Reasoning(protein_improvement, carb_improvement, fat_improvement, floats)],
            floats)

\* NutritionAnalyzer.score_alternative
score_alternative(self, original, alternative) ==
    LET orig_protein == Get(original, "protein", 0)
        orig_carbs == Get(original, "carbs", 0)
        orig_fat == Get(original, "fat", 0)
        alt_protein == Get(alternative, "protein", 0)
        alt_carbs == Get(alternative, "carbs", 0)
        alt_fat == Get(alternative, "fat", 0)
        protein_improvement == alt_protein - orig_protein
        carb_improvement == orig_carbs - alt_carbs
        fat_improvement == orig_fat - alt_fat
        floats == DiffFloats(original, alternative)
    IN  WithFloats(
            [protein_diff |-> protein_improvement,
             carb_diff |-> carb_improvement,
             fat_diff |-> fat_improvement,
             overall_score |->
                OverallScore(protein_improvement, carb_improvement, fat_improvement,
                             Max(orig_protein, 1), Max(orig_carbs, 1), Max(orig_fat, 1)),
             reasoning |->
                Reasoning(protein_improvement, carb_improvement, fat_improvement, floats)],
            floats)

\* the dict top_n_alternatives appends for a candidate and its score
Alternative(candidate, score) ==
    [food |-> candidate, nutritionScore |-> score, overall_score |-> score.overall_score]

\* the loop without its is_better test: every candidate is kept
RECURSIVE FilterAndScore_KeepAll(_, _, _)
FilterAndScore_KeepAll(self, original, candidates) ==
    IF candidates = <<>> THEN <<>>
    ELSE LET candidate == Head(candidates)
             score == score_alternative(self, original, candidate)
         IN  << Alternative(candidate, score) >>
             \o FilterAndScore_KeepAll(self, original, Tail(candidates))

\* the loop of top_n_alternatives: keep and score the candidates that are better
RECURSIVE FilterAndScore(_, _, _)
FilterAndScore(self, original, candidates) ==
    IF candidates = <<>> THEN <<>>
    ELSE LET candidate == Head(candidates)
             score == score_alternative(self, original, candidate)
             rest == FilterAndScore(self, original, Tail(candidates))
         IN  IF is_better(self, original, candidate)
             THEN << Alternative(candidate, score) >> \o rest
             ELSE rest

\* an insertion that puts a new entry before the entries of equal score
RECURSIVE InsertDesc_Unstable(_, _)
InsertDesc_Unstable(x, sorted) ==
    IF sorted = <<>> THEN <<x>>
    ELSE IF FloatGT(Head(sorted).overall_score, x.overall_score)
         THEN <<Head(sorted)>> \o InsertDesc_Unstable(x, Tail(sorted))
         ELSE <<x>> \o sorted

\* where a new entry goes in a list already sorted descending: after every
\* entry whose score is greater than or equal to its own (the sort is stable)
RECURSIVE InsertDesc(_, _)
InsertDesc(x, sorted) ==
    IF sorted = <<>> THEN <<x>>
    ELSE IF FloatGE(Head(sorted).overall_score, x.overall_score)
         THEN <<Head(sorted)>> \o InsertDesc(x, Tail(sorted))
         ELSE <<x>> \o sorted

\* alternatives.sort(key=lambda x: x['overall_score'], reverse=True)
RECURSIVE SortDesc(_)
SortDesc(alternatives) ==
    IF alternatives = <<>> THEN <<>>
    ELSE InsertDesc(alternatives[Len(alternatives)],
                    SortDesc(SubSeq(alternatives, 1, Len(alternatives) - 1)))

\* the slice taken one entry too long
SliceTo_OffByOne(s, n) ==
    IF n >= 0 THEN SubSeq(s, 1, Min(n + 1, Len(s)))
    ELSE SubSeq(s, 1, Max(Len(s) + n + 1, 0))

\* alternatives[:top_n]
SliceTo(s, n) ==
    IF n >= 0 THEN SubSeq(s, 1, Min(n, Len(s)))
    ELSE SubSeq(s, 1, Max(Len(s) + n, 0))

\* NutritionAnalyzer.top_n_alternatives
top_n_alternatives(self, original, candidates, top_n) ==
    SliceTo(SortDesc(FilterAndScore(self, original, candidates)), top_n)

-----------------------------------------------------------------------------
(* Inputs of the analyzer *)

Amounts == 0 .. MaxAmount

\* every food with whole-gram amounts up to MaxAmount
GridFoods == [name : {"grid food"}, protein : Amounts, carbs : Amounts, fat : Amounts]

\* dicts that lack some of the keys the analyzer reads with .get(key, 0)
PartialFoods == { [name |-> "water"],
                  [name |-> "egg white", protein |-> 4],
                  [name |-> "sugar", carbs |-> 4],
                  [name |-> "oil", fat |-> 4, carbs |-> 0] }

Food(name, protein, carbs, fat) ==
    [name |-> name, protein |-> protein, carbs |-> carbs, fat |-> fat]

\* the foods of nutrition_analyzer.py's example run
Pizza == Food("Pepperoni Pizza", 12, 33, 10)
ChickenWrap == Food("Grilled Chicken Wrap", 25, 28, 6)
CauliflowerPizza == Food("Cauliflower Crust Pizza", 20, 15, 7)
TurkeySandwich == Food("Turkey Sandwich", 8, 35, 12)
CaesarSalad == Food("Chicken Caesar Salad", 30, 10, 8)

\* further foods: a leaner pizza, a near copy of the turkey sandwich, a bagel
\* with its boundary alternatives, a zero-carb original, a carb-heavy shake,
\* and three alternatives to the bagel: two of the same amounts, whose scores
\* are the same float 0.72, and one whose score is the float next above it
LeanPizza == Food("Lean Pizza", 25, 15, 7)
TurkeyMelt == Food("Turkey Melt", 9, 33, 11)
Bagel == Food("Plain Bagel", 10, 10, 10)
ProteinBagel == Food("Protein Bagel", 13, 8, 8)
Steak == Food("Steak", 10, 0, 10)
Shake == Food("Mass Gainer Shake", 13, 50, 8)
EggWhites == Food("Egg Whites", 13, 0, 0)
EggWhitesCarton == Food("Egg Whites (carton)", 13, 0, 0)
ChickenSkewer == Food("Chicken Skewer", 25, 8, 8)

\* foods as main builds them from parsed USDA data: amounts that are floats,
\* or floats and ints mixed
PizzaParsed == WithFloats(Pizza, { "protein", "carbs", "fat" })
LeanPizzaParsed == WithFloats(LeanPizza, { "protein", "carbs", "fat" })
CaesarSaladMixed == WithFloats(CaesarSalad, { "carbs" })

ExampleFoods == { Pizza, ChickenWrap, CauliflowerPizza, TurkeySandwich, CaesarSalad,
                  LeanPizza, TurkeyMelt, Bagel, ProteinBagel,
                  Steak, Shake, EggWhites, EggWhitesCarton, ChickenSkewer,
                  PizzaParsed, LeanPizzaParsed, CaesarSaladMixed }

Foods == GridFoods \cup PartialFoods \cup ExampleFoods

\* the originals and the candidate pool of the ranking calls
RankOriginals == { Pizza, Bagel }
RankCandidates == { EggWhites, EggWhitesCarton, ChickenSkewer, Shake }

\* the candidate list of nutrition_analyzer.py's example run
ExampleAlternatives == << ChickenWrap, CauliflowerPizza, TurkeySandwich, CaesarSalad >>

\* all sequences over S of length at most n
RECURSIVE SeqsUpTo(_, _)
SeqsUpTo(S, n) ==
    IF n = 0 THEN { <<>> }
    ELSE LET shorter == SeqsUpTo(S, n - 1)
         IN  shorter \cup { Append(s, x) : s \in { t \in shorter : Len(t) = n - 1 }, x \in S }

CandidateLists == SeqsUpTo(RankCandidates, MaxCands) \cup { ExampleAlternatives }

TopNs == -1 .. MaxTopN

CustomAnalyzer == NutritionAnalyzer(1, Frac(1, 2), Frac(1, 1))

Analyzers == { DefaultAnalyzer, CustomAnalyzer }

-----------------------------------------------------------------------------
(* The analyzer as a state machine: construct it, then call one operation *)

Idle == [op |-> "idle"]
NoReturn == [status |-> "none"]
Return(value) == [status |-> "return", value |-> value]
Raise(exc) == [status |-> "raise", exc |-> exc]

\* main() is not running: an operation is called on its own
NotRunning == [pc |-> "none"]

\* the client before any call: an empty cache, every caller outside make_request
IdleFrame == [pc |-> "idle"]
Callers == { "c1", "c2" }
ClientAtRest ==
    /\ cache = <<>>
    /\ frame = [c \in Callers |-> IdleFrame]
    /\ requests = <<>>
    /\ history = <<>>

InitAnalyzer ==
    /\ analyzer \in Analyzers
    /\ call = Idle
    /\ ret = NoReturn
    /\ ClientAtRest
    /\ prog = NotRunning

CallIsBetter ==
    /\ call = Idle
    /\ \E original \in Foods, alternative \in Foods :
        /\ call' = [op |-> "is_better", original |-> original, alternative |-> alternative]
        /\ ret' = Return(is_better(analyzer, original, alternative))
    /\ UNCHANGED <<analyzer, clientVars, prog>>

CallScoreAlternative ==
    /\ call = Idle
    /\ \E original \in Foods, alternative \in Foods :
        /\ call' = [op |-> "score_alternative", original |-> original,
                    alternative |-> alternative]
        /\ ret' = Return(score_alternative(analyzer, original, alternative))
    /\ UNCHANGED <<analyzer, clientVars, prog>>

CallTopNAlternatives ==
    /\ call = Idle
    /\ \E original \in RankOriginals, candidates \in CandidateLists, top_n \in TopNs :
        /\ call' = [op |-> "top_n_alternatives", original |-> original,
                    candidates |-> candidates, top_n |-> top_n]
        /\ ret' = Return(top_n_alternatives(analyzer, original, candidates, top_n))
    /\ UNCHANGED <<analyzer, clientVars, prog>>

NextAnalyzer ==
    \/ CallIsBetter
    \/ CallScoreAlternative
    \/ CallTopNAlternatives

SpecAnalyzer == InitAnalyzer /\ [][NextAnalyzer]_vars

-----------------------------------------------------------------------------
(* RAGChain.create_query *)

LowProteinBelow == 15     \* "high protein alternatives" when avg_protein < 15
HighCarbsAbove == 30      \* "low carb substitutes" when avg_carbs > 30

\* sum(food.get(key, 0) for food in foods)
RECURSIVE SumOf(_, _)
SumOf(foods, key) ==
    IF foods = <<>> THEN 0 ELSE Get(Head(foods), key, 0) + SumOf(Tail(foods), key)

\* [f['name'] for f in foods]
Names(foods) == [i \in 1 .. Len(foods) |-> foods[i].name]

\* create_query with the averages of an empty list taken as 0
create_query_EmptyOk(foods, goals) ==
    IF \E i \in 1 .. Len(foods) : "name" \notin DOMAIN foods[i] THEN Raise("KeyError")
    ELSE LET n == Max(Len(foods), 1)
             query_parts ==
                (IF SumOf(foods, "protein") < LowProteinBelow * n
                    THEN << "high protein alternatives" >> ELSE <<>>)
                \o (IF SumOf(foods, "carbs") > HighCarbsAbove * n
                    THEN << "low carb substitutes" >> ELSE <<>>)
                \o << goals >>
                \o << "alternatives to " \o Join(Names(foods), " ") >>
         IN  Return(Join(query_parts, " "))

\* create_query with inclusive thresholds: average protein <= 15, carbs >= 30
create_query_Inclusive(foods, goals) ==
    IF Len(foods) = 0 THEN Raise("ZeroDivisionError")
    ELSE IF \E i \in 1 .. Len(foods) : "name" \notin DOMAIN foods[i] THEN Raise("KeyError")
    ELSE LET query_parts ==
                (IF SumOf(foods, "protein") <= LowProteinBelow * Len(foods)
                    THEN << "high protein alternatives" >> ELSE <<>>)
                \o (IF SumOf(foods, "carbs") >= HighCarbsAbove * Len(foods)
                    THEN << "low carb substitutes" >> ELSE <<>>)
                \o << goals >>
                \o << "alternatives to " \o Join(Names(foods), " ") >>
         IN  Return(Join(query_parts, " "))

\* RAGChain.create_query: the average is sum / len, so an empty list divides by
\* zero; avg < 15 is sum < 15 * len and avg > 30 is sum > 30 * len
create_query(foods, goals) ==
    IF Len(foods) = 0 THEN Raise("ZeroDivisionError")
    ELSE IF \E i \in 1 .. Len(foods) : "name" \notin DOMAIN foods[i] THEN Raise("KeyError")
    ELSE LET query_parts ==
                (IF SumOf(foods, "protein") < LowProteinBelow * Len(foods)
                    THEN << "high protein alternatives" >> ELSE <<>>)
                \o (IF SumOf(foods, "carbs") > HighCarbsAbove * Len(foods)
                    THEN << "low carb substitutes" >> ELSE <<>>)
                \o << goals >>
                \o << "alternatives to " \o Join(Names(foods), " ") >>
         IN  Return(Join(query_parts, " "))

QueryFoods == { Pizza, CaesarSalad, Bagel, CauliflowerPizza, Shake, [name |-> "water"] }

Goals == { "improve nutrition", "lose weight and build muscle", "" }

InitQuery ==
    /\ analyzer = DefaultAnalyzer
    /\ call = Idle
    /\ ret = NoReturn
    /\ ClientAtRest
    /\ prog = NotRunning

CallCreateQuery ==
    /\ call = Idle
    /\ \E foods \in SeqsUpTo(QueryFoods, MaxFoods), goals \in Goals :
        /\ call' = [op |-> "create_query", foods |-> foods, goals |-> goals]
        /\ ret' = create_query(foods, goals)
    /\ UNCHANGED <<analyzer, clientVars, prog>>

NextQuery == CallCreateQuery

SpecQuery == InitQuery /\ [][NextQuery]_vars

-----------------------------------------------------------------------------
(* APIClient: make_request over the disk cache, and clear_cache *)

\* JSON bodies the service can answer with; a dict is a record, {} is <<>>
EmptyJson == <<>>
NoFoodsJson == [foods |-> <<>>]
PizzaJson == [fdcId |-> 1001, description |-> "Pepperoni Pizza"]
Responses == { EmptyJson, NoFoodsJson, PizzaJson }

\* ways the GET fails with a requests.exceptions.RequestException
Failures == { "ReadTimeout", "HTTPError" }

\* os.getenv("API_KEY") when it is set
ApiKey == "KEY"

\* the lookup of search_foods(query, page_size=1): the endpoint and the text
\* str(params) of its parameters, api_key included
SearchLookup(query) ==
    [endpoint |-> "foods/search",
     params |-> "{'query': '" \o query
                    \o "', 'pageSize': 1, 'data_type': ['Survey (FNDDS)'], 'api_key': '"
                    \o ApiKey \o "'}",
     query |-> query]

\* the lookup of get_food_details(fdc_id)
DetailLookup(fdc_id) ==
    [endpoint |-> "food/" \o ToString(fdc_id),
     params |-> "{'api_key': '" \o ApiKey \o "'}",
     fdc_id |-> fdc_id]

\* the lookups made on the client alone
Lookups == { SearchLookup("pizza"), DetailLookup(1001) }

\* cache_key = f"{endpoint}:{str(params)}"
CacheKey(lookup) == lookup.endpoint \o ":" \o lookup.params

\* Cache.get(key): the stored value, or None
CacheGet(c, key) == IF key \in DOMAIN c THEN Some(c[key]) ELSE None

\* Python truth of "cached": None and the empty dict are false
Truthy(cached) == cached # None /\ DOMAIN cached[1] # {}

\* "if cached:" of make_request
IsHit(cached) == Truthy(cached)

\* the record of a finished make_request: what it returned or raised, how many
\* external requests it issued, and the cache when it began and when it ended
Finished(c, status, value, issued, cache_after) ==
    [op |-> "make_request", caller |-> c, key |-> frame[c].key,
     status |-> status, value |-> value,
     requests |-> issued,
     cache_before |-> frame[c].cache_before,
     cache_after |-> cache_after]

OpsBegun ==
    Len(history) + Cardinality({ c \in Callers : frame[c].pc # "idle" })

\* make_request is entered: the cache key is built
Enter(c, lookup) ==
    /\ frame[c].pc = "idle"
    /\ frame' = [frame EXCEPT ![c] =
            [pc |-> "check", key |-> CacheKey(lookup), requests |-> 0,
             cache_before |-> cache]]

\* a call of make_request on the client alone
Begin(c, lookup) ==
    /\ OpsBegun < MaxOps
    /\ Enter(c, lookup)
    /\ UNCHANGED <<cache, requests, history, analyzerVars, prog>>

\* cached = self.cache.get(cache_key); if cached: return cached
CheckCacheHit(c) ==
    /\ frame[c].pc = "check"
    /\ IsHit(CacheGet(cache, frame[c].key))
    /\ history' = Append(history,
            Finished(c, "return", CacheGet(cache, frame[c].key)[1],
                     frame[c].requests, cache))
    /\ frame' = [frame EXCEPT ![c] = IdleFrame]
    /\ UNCHANGED <<cache, requests, analyzerVars, prog>>

CheckCacheMiss(c) ==
    /\ frame[c].pc = "check"
    /\ ~ IsHit(CacheGet(cache, frame[c].key))
    /\ frame' = [frame EXCEPT ![c].pc = "get"]
    /\ UNCHANGED <<cache, requests, history, analyzerVars, prog>>

\* session.get, raise_for_status and response.json() succeed with a body
HttpGetOk(c, data) ==
    /\ frame[c].pc = "get"
    /\ requests' = Append(requests, [key |-> frame[c].key, caller |-> c,
                                      outcome |-> "ok", data |-> data])
    /\ frame' = [frame EXCEPT ![c] =
            [pc |-> "set", key |-> frame[c].key, requests |-> frame[c].requests + 1,
             cache_before |-> frame[c].cache_before, data |-> data]]
    /\ UNCHANGED <<cache, history, analyzerVars, prog>>

\* a failing GET that records the failure in the cache under the key
HttpGetFails_CachesFailure(c, failure) ==
    /\ frame[c].pc = "get"
    /\ requests' = Append(requests, [key |-> frame[c].key, caller |-> c,
                                      outcome |-> failure, data |-> None])
    /\ cache' = WithKey(cache, frame[c].key, [error |-> failure])
    /\ history' = Append(history,
            Finished(c, "raise", "API request failed: " \o failure,
                     frame[c].requests + 1, cache'))
    /\ frame' = [frame EXCEPT ![c] = IdleFrame]
    /\ UNCHANGED <<analyzerVars, prog>>

\* a failing GET that is swallowed: the caller gets an empty result
HttpGetFails_ReturnsEmpty(c, failure) ==
    /\ frame[c].pc = "get"
    /\ requests' = Append(requests, [key |-> frame[c].key, caller |-> c,
                                      outcome |-> failure, data |-> None])
    /\ history' = Append(history,
            Finished(c, "return", EmptyJson, frame[c].requests + 1, cache))
    /\ frame' = [frame EXCEPT ![c] = IdleFrame]
    /\ UNCHANGED <<cache, analyzerVars, prog>>

\* the GET times out or answers a non-success status: the RequestException is
\* caught and Exception("API request failed: ...") is raised
HttpGetFails(c, failure) ==
    /\ frame[c].pc = "get"
    /\ requests' = Append(requests, [key |-> frame[c].key, caller |-> c,
                                      outcome |-> failure, data |-> None])
    /\ history' = Append(history,
            Finished(c, "raise", "API request failed: " \o failure,
                     frame[c].requests + 1, cache))
    /\ frame' = [frame EXCEPT ![c] = IdleFrame]
    /\ UNCHANGED <<cache, analyzerVars, prog>>

\* self.cache.set(cache_key, data); return data
CacheSetAndReturn(c) ==
    /\ frame[c].pc = "set"
    /\ cache' = WithKey(cache, frame[c].key, frame[c].data)
    /\ history' = Append(history,
            Finished(c, "return", frame[c].data, frame[c].requests, cache'))
    /\ frame' = [frame EXCEPT ![c] = IdleFrame]
    /\ UNCHANGED <<requests, analyzerVars, prog>>

\* APIClient.clear_cache
ClearCache(c) ==
    /\ frame[c].pc = "idle"
    /\ OpsBegun < MaxOps
    /\ cache' = <<>>
    /\ history' = Append(history, [op |-> "clear_cache", caller |-> c])
    /\ UNCHANGED <<frame, requests, analyzerVars, prog>>


InitClient ==
    /\ analyzer = DefaultAnalyzer
    /\ call = Idle
    /\ ret = NoReturn
    /\ ClientAtRest
    /\ prog = NotRunning

\* the command-line program: one caller, one operation after the other
MainCaller == "c1"

NextClient ==
    \/ \E lookup \in Lookups : Begin(MainCaller, lookup)
    \/ CheckCacheHit(MainCaller)
    \/ CheckCacheMiss(MainCaller)
    \/ \E data \in Responses : HttpGetOk(MainCaller, data)
    \/ \E failure \in Failures : HttpGetFails(MainCaller, failure)
    \/ CacheSetAndReturn(MainCaller)
    \/ ClearCache(MainCaller)

SpecClient == InitClient /\ [][NextClient]_vars

\* two callers sharing one client and one cache: the cache read, the GET and
\* the cache write of each make_request interleave with the other caller's
NextConcurrent ==
    \/ \E c \in Callers, lookup \in Lookups : Begin(c, lookup)
    \/ \E c \in Callers : CheckCacheHit(c)
    \/ \E c \in Callers : CheckCacheMiss(c)
    \/ \E c \in Callers, data \in Responses : HttpGetOk(c, data)
    \/ \E c \in Callers, failure \in Failures : HttpGetFails(c, failure)
    \/ \E c \in Callers : CacheSetAndReturn(c)

SpecConcurrent == InitClient /\ [][NextConcurrent]_vars

-----------------------------------------------------------------------------
(* APIClient.parse_food *)

\* APIClient.NUTRIENT_IDENTIFIERS
NUTRIENT_IDENTIFIERS ==
    [protein |-> "203", carbs |-> "205", fat |-> "204",
     calories |-> "208", fiber |-> "291", sugar |-> "269"]

\* a number and its type
Number(value, is_float) == [value |-> value, is_float |-> is_float]

\* the float 0.0
FloatNought == Number(0, TRUE)

\* nutrient.get('amount', 0.0)
AmountGiven(nutrient) ==
    IF "amount" \in DOMAIN nutrient
    THEN Number(nutrient.amount, IsFloat(nutrient, "amount"))
    ELSE FloatNought

\* the loop of parse_food over data['foodNutrients'], for one of the six
\* nutrients: the amount of the last entry whose nutrient number equals
\* `number`, or `sofar` when there is none; an entry without 'amount' counts
\* as 0.0, and a number that is not the string (203 for '203') equals none
RECURSIVE AmountOf(_, _, _)
AmountOf(food_nutrients, number, sofar) ==
    IF food_nutrients = <<>> THEN sofar
    ELSE LET nutrient == Head(food_nutrients)
             nutrient_info == Get(nutrient, "nutrient", <<>>)
             nutrient_num == Get(nutrient_info, "number", "")
             amount == AmountGiven(nutrient)
         IN  AmountOf(Tail(food_nutrients), number,
                      IF SameValue(nutrient_num, number) THEN amount ELSE sofar)

\* FoodInfo(name, amount, unit)
FoodInfo(name, amount, unit) ==
    WithFloats([name |-> name, amount |-> amount.value, unit |-> unit],
               IF amount.is_float THEN { "amount" } ELSE {})

\* the same loop, for the dict `nutrients`: one FoodInfo per nutrient name, the
\* last entry of a name replacing the earlier ones
RECURSIVE FoodInfos(_, _)
FoodInfos(food_nutrients, nutrients) ==
    IF food_nutrients = <<>> THEN nutrients
    ELSE LET nutrient == Head(food_nutrients)
             nutrient_info == Get(nutrient, "nutrient", <<>>)
             nutrient_name == Get(nutrient_info, "name", "")
             amount == AmountGiven(nutrient)
             unit == Get(nutrient_info, "unitName", "g")
         IN  FoodInfos(Tail(food_nutrients),
                       WithKey(nutrients, nutrient_name,
                               FoodInfo(nutrient_name, amount, unit)))

\* APIClient.parse_food: every nutrient starts at 0.0; fdc_id is None when the
\* data has no 'fdcId'
parse_food(data) ==
    LET food_nutrients == Get(data, "foodNutrients", <<>>)
        amounts == [key \in DOMAIN NUTRIENT_IDENTIFIERS |->
                        AmountOf(food_nutrients, NUTRIENT_IDENTIFIERS[key], FloatNought)]
    IN  WithFloats(
            [fdc_id |-> GetOrNone(data, "fdcId"),
             description |-> Get(data, "description", ""),
             data_type |-> Get(data, "dataType", ""),
             protein |-> amounts.protein.value,
             carbs |-> amounts.carbs.value,
             fat |-> amounts.fat.value,
             calories |-> amounts.calories.value,
             fiber |-> amounts.fiber.value,
             sugar |-> amounts.sugar.value,
             nutrients |-> FoodInfos(food_nutrients, <<>>)],
            { key \in DOMAIN NUTRIENT_IDENTIFIERS : amounts[key].is_float })

\* an entry of foodNutrients whose amount is an int, and one whose amount is a
\* float
Nutrient(number, name, amount) ==
    [nutrient |-> [number |-> number, name |-> name], amount |-> amount]
FloatNutrient(number, name, amount) ==
    WithFloats(Nutrient(number, name, amount), { "amount" })

\* food detail responses: a pizza with every nutrient, the amounts floats; a
\* steak with int amounts, no carbohydrate entry and a fiber entry whose number
\* is the int 291; a bagel whose fat entry has no amount; and the empty response
PizzaDetail ==
    [fdcId |-> 1001, description |-> "Pepperoni Pizza", dataType |-> "Survey (FNDDS)",
     foodNutrients |-> << FloatNutrient("203", "Protein", 12),
                          FloatNutrient("205", "Carbohydrate, by difference", 33),
                          FloatNutrient("204", "Total lipid (fat)", 10),
                          FloatNutrient("208", "Energy", 266) >>]
SteakDetail ==
    [fdcId |-> 1002, description |-> "Steak",
     foodNutrients |-> << Nutrient("204", "Total lipid (fat)", 10),
                          Nutrient("203", "Protein", 10),
                          Nutrient(291, "Fiber, total dietary", 2) >>]
BagelDetail ==
    [fdcId |-> 1003, description |-> "Plain Bagel",
     foodNutrients |-> << Nutrient("203", "Protein", 10),
                          FloatNutrient("205", "Carbohydrate, by difference", 10),
                          [nutrient |-> [number |-> "204", name |-> "Total lipid (fat)"]] >>]
FoodDetails == { PizzaDetail, SteakDetail, BagelDetail, EmptyJson }

-----------------------------------------------------------------------------
(* RAGChain.find_alternatives and the "Finding alternatives" step of main *)

\* RAGChain.find_alternatives, after the retriever has answered with `results`
\* (the metadata of each document): one entry per document of type food_item
RECURSIVE find_alternatives(_)
find_alternatives(results) ==
    IF results = <<>> THEN <<>>
    ELSE LET metadata == Head(results)
             rest == find_alternatives(Tail(results))
         IN  IF SameValue(GetOrNone(metadata, "type"), Some("food_item"))
             THEN << [name |-> GetOrNone(metadata, "name"),
                      nutrition |->
                        WithFloats([protein |-> GetOrNone(metadata, "protein"),
                                    carbs |-> GetOrNone(metadata, "carbs"),
                                    fat |-> GetOrNone(metadata, "fat"),
                                    calories |-> GetOrNone(metadata, "calories")],
                                   Get(metadata, "floats", {})
                                        \cap { "protein", "carbs", "fat", "calories" })] >>
                  \o rest
             ELSE rest

\* the candidates main builds from rag_results
CandidatesOf(rag_results) ==
    [i \in 1 .. Len(rag_results) |->
        WithFloats([name |-> rag_results[i].name,
                    protein |-> rag_results[i].nutrition.protein,
                    carbs |-> rag_results[i].nutrition.carbs,
                    fat |-> rag_results[i].nutrition.fat,
                    calories |-> rag_results[i].nutrition.calories],
                   Get(rag_results[i].nutrition, "floats", {}))]

\* Python's TypeError text for a binary operator on these operand types
Unsupported(operator, left, right) ==
    "unsupported operand type(s) for " \o operator \o ": '" \o left
        \o "' and '" \o right \o "'"

\* what is_better and score_alternative raise for one candidate whose amounts
\* may be None, the original's being numbers: None, or Some(error text), which
\* names the type of the original's amount.  The operations are tried in the
\* order the code performs them: alt_protein - orig_protein,
\* alt_carbs / orig_carbs, alt_fat / orig_fat in is_better, then
\* orig_carbs - alt_carbs and orig_fat - alt_fat in score_alternative.
CandidateError(self, original, candidate) ==
    IF candidate.protein = None
    THEN Some(Unsupported("-", "NoneType", TypeName(original, "protein")))
    ELSE IF candidate.protein[1] - original.protein < self.min_protein_increase
    THEN None
    ELSE IF original.carbs > 0 /\ candidate.carbs = None
    THEN Some(Unsupported("/", "NoneType", TypeName(original, "carbs")))
    ELSE IF original.carbs > 0
            /\ FracGT(Frac(candidate.carbs[1], original.carbs), self.max_carb_ratio)
    THEN None
    ELSE IF original.fat > 0 /\ candidate.fat = None
    THEN Some(Unsupported("/", "NoneType", TypeName(original, "fat")))
    ELSE IF original.fat > 0
            /\ FracGT(Frac(candidate.fat[1], original.fat), self.max_fat_ratio)
    THEN None
    ELSE IF candidate.carbs = None
    THEN Some(Unsupported("-", TypeName(original, "carbs"), "NoneType"))
    ELSE IF candidate.fat = None
    THEN Some(Unsupported("-", TypeName(original, "fat"), "NoneType"))
    ELSE None

\* the error of the first candidate that has one, in list order
RECURSIVE FirstError(_, _, _)
FirstError(self, original, candidates) ==
    IF candidates = <<>> THEN None
    ELSE IF CandidateError(self, original, Head(candidates)) # None
         THEN CandidateError(self, original, Head(candidates))
         ELSE FirstError(self, original, Tail(candidates))

\* a candidate as the dict the analyzer is handed, each value without its
\* Some; an amount of None, which the code never gets to read when no
\* candidate has an error, is written 0
Unwrapped(candidate) ==
    LET Value(v) == IF v = None THEN None ELSE v[1]
        Amount(v) == IF v = None THEN 0 ELSE v[1]
    IN  WithFloats([name |-> Value(candidate.name),
                    protein |-> Amount(candidate.protein),
                    carbs |-> Amount(candidate.carbs),
                    fat |-> Amount(candidate.fat),
                    calories |-> Value(candidate.calories)],
                   Get(candidate, "floats", {}))

\* top_n_alternatives on candidates whose amounts may be None
RankCandidatesOrFail(self, original, candidates, top_n) ==
    IF FirstError(self, original, candidates) # None
    THEN [status |-> "raise", exc |-> "TypeError",
          message |-> FirstError(self, original, candidates)[1]]
    ELSE Return(top_n_alternatives(self, original,
                    [i \in 1 .. Len(candidates) |-> Unwrapped(candidates[i])], top_n))

\* the dict main appends to all_foods for a parsed food
AllFoodsEntry(food) ==
    WithFloats([name |-> food.description, protein |-> food.protein,
                carbs |-> food.carbs, fat |-> food.fat,
                calories |-> food.calories, fiber |-> food.fiber],
               Get(food, "floats", {})
                    \cap { "protein", "carbs", "fat", "calories", "fiber" })

MainTopN == 2

FindingLine == "Finding alternatives..."
BetterLine == "Better alternatives:"
NoBetterLine == "  (No better alternatives found - this food is already great!)"
CouldNotLine(message) == "Could not find alternatives: " \o message

\* what the lines "if better: ... else: ..." of main print for a ranked list:
\* the loop reads alt['score'], a key the entries do not have, so the first
\* entry raises KeyError('score')
PrintBetter(better) ==
    IF better # <<>>
    THEN << BetterLine, CouldNotLine("'score'") >>
    ELSE << NoBetterLine >>

\* the step once the candidates are built: `ranking` is what
\* top_n_alternatives did with them (returned a list, or raised)
AfterRanking(candidates, ranking) ==
    [candidates |-> candidates,
     ranking |-> ranking,
     printed |-> << FindingLine >> \o
         (IF ranking.status = "raise"
          THEN << CouldNotLine(ranking.message) >>
          ELSE PrintBetter(ranking.value))]

\* the step from the candidates on
RankAndPrint(self, original, candidates) ==
    AfterRanking(candidates, RankCandidatesOrFail(self, original, candidates, MainTopN))

\* the "Finding alternatives" step of main for one food: `retrieved` is what
\* the retriever did (returned documents, or raised)
FindingAlternatives(self, original, retrieved) ==
    IF retrieved.status = "raise"
    THEN [candidates |-> <<>>, ranking |-> NoReturn,
          printed |-> << FindingLine, CouldNotLine(retrieved.exc) >>]
    ELSE RankAndPrint(self, original, CandidatesOf(find_alternatives(retrieved.value)))

\* document metadata in the vector store: a lean pizza whose amounts are
\* floats, a turkey sandwich whose amounts are ints, and two documents that
\* lack an amount
Doc(name, protein, carbs, fat) ==
    [type |-> "food_item", name |-> name, protein |-> protein, carbs |-> carbs,
     fat |-> fat, calories |-> 0]
DocLeanPizza == WithFloats(Doc("Lean Pizza", 25, 15, 7), { "protein", "carbs", "fat" })
DocTurkeySandwich == Doc("Turkey Sandwich", 8, 35, 12)
DocNoProtein == [type |-> "food_item", name |-> "Mystery Stew", carbs |-> 5, fat |-> 2]
DocNoCarbs ==
    WithFloats([type |-> "food_item", name |-> "Egg Whites", protein |-> 30, fat |-> 0],
               { "protein" })
DocGuide == [type |-> "guide", title |-> "Eating well"]
Docs == { DocLeanPizza, DocTurkeySandwich, DocNoProtein, DocNoCarbs, DocGuide }

RetrieverErrors == { "Connection refused", "Collection not found" }

-----------------------------------------------------------------------------
(* The vector store and the retriever *)

Range(s) == { s[i] : i \in DOMAIN s }

\* a vector DB filled by an earlier run or by other means: the documents above
FilledStore ==
    << DocLeanPizza, DocTurkeySandwich, DocNoProtein, DocNoCarbs, DocGuide >>

\* the vector DB when main starts: empty on first use, or filled
Stores == { <<>>, FilledStore }

\* VectorStore.add_food_data: the metadata of the document added for each food
add_food_data(food_items) ==
    [i \in 1 .. Len(food_items) |->
        WithFloats([fdc_id |-> GetOrNone(food_items[i], "fdc_id"),
                    name |-> food_items[i].name,
                    category |-> Get(food_items[i], "category", "General"),
                    protein |-> Get(food_items[i], "protein", 0),
                    carbs |-> Get(food_items[i], "carbs", 0),
                    fat |-> Get(food_items[i], "fat", 0),
                    calories |-> Get(food_items[i], "calories", 0),
                    type |-> "food_item"],
                   Get(food_items[i], "floats", {})
                        \cap { "protein", "carbs", "fat", "calories" })]

\* the dict load_vector_db hands to add_food_data for a parsed food; fdc_id is
\* None when the response had no 'fdcId'
SampleItem(food) ==
    LET item == WithFloats([name |-> food.description, protein |-> food.protein,
                            carbs |-> food.carbs, fat |-> food.fat,
                            calories |-> food.calories, fiber |-> food.fiber,
                            tags |-> <<>>],
                           Get(food, "floats", {})
                                \cap { "protein", "carbs", "fat", "calories", "fiber" })
    IN  IF food.fdc_id = None THEN item ELSE WithKey(item, "fdc_id", food.fdc_id[1])

\* what the retriever can answer from a store: up to MaxDocs of its documents,
\* in any order; a store can hold the same metadata more than once (one
\* document is added per sample food), so a document may come more than once
Retrievable(store) ==
    { results \in SeqsUpTo(Range(store), MaxDocs) : Len(results) <= Len(store) }

-----------------------------------------------------------------------------
(* The USDA service as main sees it through make_request *)

Answered(data) == [status |-> "ok", data |-> data]
Failed(failure) == [status |-> "fail", failure |-> failure]

\* a search response with one food
FoundFood(fdc_id, description) ==
    [foods |-> << [fdcId |-> fdc_id, description |-> description] >>]

\* the search responses of a service in working order: steak, bagel, stew and
\* water are foods of their own, soup is listed without an fdcId, air and tofu
\* are not found, and every other query finds the pizza
UsdaSearch(query) ==
    CASE query = "steak" -> FoundFood(1002, "Steak")
      [] query = "bagel" -> FoundFood(1003, "Plain Bagel")
      [] query = "stew" -> FoundFood(1004, "Mystery Stew")
      [] query = "water" -> FoundFood(1005, "Water")
      [] query = "soup" -> [foods |-> << [description |-> "Soup"] >>]
      [] query \in { "air", "tofu" } -> NoFoodsJson
      [] OTHER -> FoundFood(1001, "Pepperoni Pizza")

\* its detail responses: the request for the stew fails, the water has an
\* empty response
UsdaDetail(fdc_id) ==
    CASE fdc_id = 1001 -> Answered(PizzaDetail)
      [] fdc_id = 1002 -> Answered(SteakDetail)
      [] fdc_id = 1003 -> Answered(BagelDetail)
      [] fdc_id = 1005 -> Answered(EmptyJson)
      [] OTHER -> Failed("HTTPError")

\* the services main can meet: "usda" is in working order, "down" times out
\* on every request
Services == { "usda", "down" }

\* what a service does with the GET of a lookup
Answer(service, lookup) ==
    IF service = "down" THEN Failed("ReadTimeout")
    ELSE IF lookup.endpoint = "foods/search" THEN Answered(UsdaSearch(lookup.query))
    ELSE UsdaDetail(lookup.fdc_id)

\* search_foods followed by results[0]['fdcId'], given how make_request ended:
\* the request raised, nothing was found, the first result has no 'fdcId'
\* (KeyError), or the fdcId of the first result
SearchOutcome(done) ==
    IF done.status = "raise"
    THEN [status |-> "raise", message |-> done.value]
    ELSE LET results == Get(done.value, "foods", <<>>)
         IN  IF results = <<>> THEN [status |-> "none"]
             ELSE IF "fdcId" \notin DOMAIN results[1]
                  THEN [status |-> "raise", message |-> "'fdcId'"]
             ELSE [status |-> "found", fdc_id |-> results[1].fdcId]

-----------------------------------------------------------------------------
(* What main prints *)

RuleWidth == 60

RECURSIVE Repeat(_, _)
Repeat(text, n) == IF n = 0 THEN "" ELSE text \o Repeat(text, n - 1)

\* "=" * 60
Rule == Repeat("=", RuleWidth)

Banner == << Rule, "NUTRITION ASSISTANT", Rule, "\nInitializing..." >>

ApiKeyRequired == "API Key Required. Set API_KEY env variable"

\* what the setup can raise: the ValueError of APIClient(), or an error of the
\* language model's or the vector store's library
SetupErrors == { ApiKeyRequired, "Could not connect to tenant default_tenant" }

SetupFailedLines(message) ==
    << "Setup failed: " \o message, "\nMake sure you have:",
       "  - API_KEY in .env", "  - ANTHROPIC_API_KEY in .env" >>

VectorEmptyLine == "Vector DB is empty. Loading a list of sample foods"
VectorReadyLine == "Vector DB ready!\n"
ReadyLine == "Ready!\n"
EnterFoodsLine == "\nEnter 3 foods you eat:"
TooFewLine == "Please provide at least 3 foods"
NotFoundLine == "Food not found, skipping\n"
ErrorProcessingLine(food_name, message) ==
    "Error processing '" \o food_name \o "': " \o message \o "\n"
FoodHeaderLine(food_name) == "--- " \o food_name \o " ---"
FoundLine(food) == "Found: " \o food.description

\* f"{x}" of an amount of a dict or object
Shown(d, key) == Format(d[key], IsFloat(d, key))

NutrientsLine(food) ==
    "Protein: " \o Shown(food, "protein") \o "g | Carbs: " \o Shown(food, "carbs")
        \o "g | Fat: " \o Shown(food, "fat") \o "g"

ThanksLines == << "\n" \o Rule, "Thanks for using Nutrition Assistant!", Rule >>

AnalysisLines ==
    << Rule, "OVERALL ANALYSIS", Rule, "\nGenerating personalized recommendations..." >>

-----------------------------------------------------------------------------
(* RAGChain.analyze_diet *)

\* f"{food.get(key, 0)}"
ShownOrZero(food, key) == IF key \in DOMAIN food THEN Shown(food, key) ELSE "0"

\* the lines format_nutrition_data writes for each food
RECURSIVE FoodLines(_)
FoodLines(foods) ==
    IF foods = <<>> THEN <<>>
    ELSE << "\n" \o Head(foods).name \o ":",
            "  - Protein: " \o ShownOrZero(Head(foods), "protein") \o "g",
            "  - Carbs: " \o ShownOrZero(Head(foods), "carbs") \o "g",
            "  - Fat: " \o ShownOrZero(Head(foods), "fat") \o "g",
            "  - Calories: " \o ShownOrZero(Head(foods), "calories") >>
         \o FoodLines(Tail(foods))

\* a total of format_nutrition_data as it is written: the sum starts at the
\* int 0 and is a float once a float was added
TotalShown(foods, key) ==
    Format(SumOf(foods, key), \E i \in 1 .. Len(foods) : IsFloat(foods[i], key))

\* RAGChain.format_nutrition_data, for foods that have a name
format_nutrition_data(foods) ==
    Join(FoodLines(foods)
            \o << "\nTotal Daily Intake:",
                  "  - Protein: " \o TotalShown(foods, "protein") \o "g",
                  "  - Carbs: " \o TotalShown(foods, "carbs") \o "g",
                  "  - Fat: " \o TotalShown(foods, "fat") \o "g",
                  "  - Calories: " \o TotalShown(foods, "calories") >>,
         "\n")

\* the dict analyze_diet hands to the chain: the location goes under the key
\* 'locatino'
ChainInput(location, foods, search_query) ==
    [query |-> search_query,
     locatino |-> location,
     current_foods |-> Join(Names(foods), ", "),
     nutrition_data |-> format_nutrition_data(foods)]

\* what the prompt of the chain is filled with, the context apart: the chain
\* reads x.get("location", "Unknown")
PromptValues(x) ==
    [location |-> Get(x, "location", "Unknown"),
     current_foods |-> Get(x, "current_foods", ""),
     nutrition_data |-> Get(x, "nutrition_data", "")]

\* analyze_diet once the query is built: `answer` is what the chain did
\* (returned the text of the language model, or raised)
AnalysisOf(location, foods, search_query, answer) ==
    IF search_query.status = "raise" THEN search_query
    ELSE IF answer.status = "raise" THEN answer
    ELSE Return([analysis |-> answer.value, foods_analyzed |-> foods])

\* the values analyze_diet has the prompt filled with, for foods that have a
\* name and are not none
DietPrompt(location, foods, user_goals) ==
    PromptValues(ChainInput(location, foods, create_query(foods, user_goals).value))

\* RAGChain.analyze_diet, for foods that have a name
analyze_diet(location, foods, user_goals, answer) ==
    AnalysisOf(location, foods, create_query(foods, user_goals), answer)

\* what the chain (retriever, prompt, language model) can do
ChainAnswers == { Return("Eat more protein."), Raise("Overloaded") }

UserGoals == "improve nutrition"

\* what main prints for the result of analyze_diet
AnalysisPrinted(result) ==
    IF result.status = "raise"
    THEN << "\nCould not generate analysis: " \o result.exc >>
    ELSE << "\n" \o result.value.analysis >>

-----------------------------------------------------------------------------
(* main *)

\* the sample foods of load_vector_db
SampleFoods ==
    << "chicken breast", "turkey breast", "salmon", "tuna", "cod", "ground beef",
       "ground turkey", "pork chop", "shrimp", "eggs", "greek yogurt",
       "cottage cheese", "tofu",
       "white rice", "brown rice", "quinoa", "oatmeal", "whole wheat bread",
       "pasta", "sweet potato", "potato",
       "broccoli", "spinach", "kale", "cauliflower", "carrots", "bell peppers",
       "zucchini",
       "avocado", "almonds" >>

\* a line typed at a prompt, as its pieces: " " is white space
Blank == " "
Typed(text) == << text >>
Padded(text) == << Blank, text, Blank >>

RECURSIVE StripLeft(_)
StripLeft(line) ==
    IF line # <<>> /\ Head(line) = Blank THEN StripLeft(Tail(line)) ELSE line

RECURSIVE StripRight(_)
StripRight(line) ==
    IF line # <<>> /\ line[Len(line)] = Blank
    THEN StripRight(SubSeq(line, 1, Len(line) - 1))
    ELSE line

\* input(...).strip()
Strip(line) == Join(StripRight(StripLeft(line)), "")

DefaultLocation == "United States"

FoodsNeeded == 3      \* if len(foods) < 3

\* what the user types: a location and the three foods asked for
Session(location, first, second, third) ==
    [location |-> location, foods |-> << first, second, third >>]

Sessions ==
    { Session(<<>>, Typed("pizza"), Typed("pizza"), Typed("calzone")),
      Session(Padded("Austin"), Padded("pizza"), Typed("steak"), Typed("bagel")),
      Session(Typed("Austin"), Typed("air"), Typed("soup"), Typed("stew")),
      Session(<< Blank >>, Typed("water"), Typed("water"), Typed("steak")),
      Session(<<>>, Typed("pizza"), << Blank >>, Typed("steak")) }

\* the loop "for i in range(3)": the typed foods that are not empty once stripped
RECURSIVE FoodsTyped(_)
FoodsTyped(lines) ==
    IF lines = <<>> THEN <<>>
    ELSE (IF Strip(Head(lines)) # "" THEN << Strip(Head(lines)) >> ELSE <<>>)
            \o FoodsTyped(Tail(lines))

\* input("Your location: ").strip() or "United States"
LocationTyped(line) == IF Strip(line) # "" THEN Strip(line) ELSE DefaultLocation

NoLookup == [endpoint |-> "none"]

\* main before its first statement
AtStart ==
    [pc |-> "start", service |-> "none", store |-> <<>>, index |-> 0,
     foods |-> <<>>, location |-> "", all_foods |-> <<>>, lookup |-> NoLookup,
     printed |-> <<>>]

\* a step of main that is no call of the analyzer
MainStep(step) == [op |-> "main", step |-> step]

\* how the last make_request ended
LastRequest == history[Len(history)]

\* make_request has returned to main
Returned == frame[MainCaller].pc = "idle"

\* the end of the setup: the chain and the analyzer are built
Ready(p, printed) ==
    [p EXCEPT !.pc = "input", !.index = 0, !.lookup = NoLookup,
              !.printed = printed \o << ReadyLine >>]

\* load_vector_db goes on to the next sample food, or returns after the last
NextSample(p, printed) ==
    IF p.index < Len(SampleFoods)
    THEN [p EXCEPT !.pc = "load", !.index = @ + 1, !.lookup = NoLookup,
                   !.printed = printed]
    ELSE Ready(p, printed \o << VectorReadyLine >>)

\* the loop of main goes on to the next food, or ends after the last
NextFood(p, printed) ==
    IF p.index < Len(p.foods)
    THEN [p EXCEPT !.pc = "loop", !.index = @ + 1, !.lookup = NoLookup,
                   !.printed = printed]
    ELSE [p EXCEPT !.pc = "analysis", !.index = 0, !.lookup = NoLookup,
                   !.printed = printed]

\* main calls make_request for a lookup
MainEnters(p, pc, lookup, printed) ==
    /\ Enter(MainCaller, lookup)
    /\ prog' = [p EXCEPT !.pc = pc, !.lookup = lookup, !.printed = printed]

\* the disk cache when main starts: empty on first use, or what an earlier
\* run that looked up pizza left in it
PizzaCached ==
    WithKey(WithKey(<<>>, CacheKey(SearchLookup("pizza")), UsdaSearch("pizza")),
            CacheKey(DetailLookup(1001)), PizzaDetail)
EarlierCaches == { <<>>, PizzaCached }

InitMain ==
    /\ analyzer = DefaultAnalyzer
    /\ call = Idle
    /\ ret = NoReturn
    /\ cache \in EarlierCaches
    /\ frame = [c \in Callers |-> IdleFrame]
    /\ requests = <<>>
    /\ history = <<>>
    /\ prog = AtStart

\* the setup fails before load_vector_db: API_KEY is not set and APIClient()
\* raises ValueError, or LLMInterface() or VectorStore() raises; main prints
\* and returns
MainSetupFails ==
    /\ prog.pc = "start"
    /\ \E message \in SetupErrors :
        prog' = [prog EXCEPT !.pc = "done",
                             !.printed = Banner \o SetupFailedLines(message)]
    /\ call' = MainStep("setup")
    /\ ret' = NoReturn
    /\ UNCHANGED <<analyzer, clientVars>>

\* the setup up to the test search of load_vector_db: a vector DB with data
\* ends the setup, an empty one starts the loading of the sample foods
MainSetsUp ==
    /\ prog.pc = "start"
    /\ \E service \in Services, store \in Stores :
        LET p == [prog EXCEPT !.service = service, !.store = store]
        IN  prog' = IF store # <<>> THEN Ready(p, Banner)
                    ELSE [p EXCEPT !.pc = "load", !.index = 1,
                                   !.printed = Banner \o << VectorEmptyLine >>]
    /\ call' = MainStep("setup")
    /\ ret' = NoReturn
    /\ UNCHANGED <<analyzer, clientVars>>

\* load_vector_db: usda.search_foods(food_name, page_size=1)
LoadSearches ==
    /\ prog.pc = "load"
    /\ MainEnters(prog, "load_search", SearchLookup(SampleFoods[prog.index]), <<>>)
    /\ UNCHANGED <<cache, requests, history, analyzerVars>>

\* load_vector_db after the search: get_food_details of the first result, or
\* the next sample food when nothing was found or something was raised
LoadSearched ==
    /\ prog.pc = "load_search"
    /\ Returned
    /\ IF SearchOutcome(LastRequest).status = "found"
       THEN MainEnters(prog, "load_detail",
                       DetailLookup(SearchOutcome(LastRequest).fdc_id), <<>>)
       ELSE prog' = NextSample(prog, <<>>) /\ UNCHANGED frame
    /\ UNCHANGED <<cache, requests, history, analyzerVars>>

\* load_vector_db after get_food_details' request: the food is parsed, added
\* to the vector DB and its name printed, unless the request raised
LoadDetailed ==
    /\ prog.pc = "load_detail"
    /\ Returned
    /\ prog' = IF LastRequest.status = "raise" THEN NextSample(prog, <<>>)
               ELSE NextSample(
                        [prog EXCEPT !.store =
                            @ \o add_food_data(<< SampleItem(parse_food(LastRequest.value)) >>)],
                        << SampleFoods[prog.index] >>)
    /\ UNCHANGED <<clientVars, analyzerVars>>

\* the location and the foods are read
MainReadsInput ==
    /\ prog.pc = "input"
    /\ \E session \in Sessions :
        IF Len(FoodsTyped(session.foods)) < FoodsNeeded
        THEN prog' = [prog EXCEPT !.pc = "done",
                                  !.printed = << EnterFoodsLine, TooFewLine >>]
        ELSE prog' = [prog EXCEPT
                        !.pc = "loop", !.index = 1,
                        !.foods = FoodsTyped(session.foods),
                        !.location = LocationTyped(session.location),
                        !.printed =
                            << EnterFoodsLine,
                               "\nLocation: " \o LocationTyped(session.location),
                               "Foods: " \o Join(FoodsTyped(session.foods), ", ")
                                    \o "\n" >>]
    /\ call' = MainStep("input")
    /\ ret' = NoReturn
    /\ UNCHANGED <<analyzer, clientVars>>

\* the loop of main: usda.search_foods(food_name, page_size=1)
LoopSearches ==
    /\ prog.pc = "loop"
    /\ MainEnters(prog, "search", SearchLookup(prog.foods[prog.index]),
                  << FoodHeaderLine(prog.foods[prog.index]) >>)
    /\ call' = MainStep("search")
    /\ ret' = NoReturn
    /\ UNCHANGED <<analyzer, cache, requests, history>>

\* the loop after the search: get_food_details of the first result; nothing
\* found is "Food not found, skipping", anything raised is "Error processing"
LoopSearched ==
    /\ prog.pc = "search"
    /\ Returned
    /\ IF SearchOutcome(LastRequest).status = "found"
       THEN MainEnters(prog, "detail",
                       DetailLookup(SearchOutcome(LastRequest).fdc_id), <<>>)
       ELSE /\ prog' = NextFood(prog,
                        IF SearchOutcome(LastRequest).status = "none"
                        THEN << NotFoundLine >>
                        ELSE << ErrorProcessingLine(prog.foods[prog.index],
                                    SearchOutcome(LastRequest).message) >>)
            /\ UNCHANGED frame
    /\ UNCHANGED <<cache, requests, history, analyzerVars>>

\* the request of get_food_details raised: "Error processing"
MainLookupFails ==
    /\ prog.pc = "detail"
    /\ Returned
    /\ LastRequest.status = "raise"
    /\ prog' = NextFood(prog, << ErrorProcessingLine(prog.foods[prog.index],
                                                     LastRequest.value) >>)
    /\ UNCHANGED <<clientVars, analyzerVars>>

\* what main prints for a food it found and the "Finding alternatives" step
FoodPrinted(food, found) ==
    << FoundLine(food), NutrientsLine(food) >> \o found.printed \o << "" >>

\* main has the details of a food and finds alternatives for it
MainFindsAlternatives ==
    /\ prog.pc = "detail"
    /\ Returned
    /\ LastRequest.status = "return"
    /\ \E results \in Retrievable(prog.store) :
        LET original == AllFoodsEntry(parse_food(LastRequest.value)) IN
        /\ call' = [op |-> "finding_alternatives", data |-> LastRequest.value,
                    original |-> original, retrieved |-> Return(results)]
        /\ ret' = Return(FindingAlternatives(analyzer, original, Return(results)))
    /\ prog' = NextFood([prog EXCEPT !.all_foods = Append(@, call'.original)],
                        FoodPrinted(parse_food(LastRequest.value), ret'.value))
    /\ UNCHANGED <<analyzer, clientVars>>

\* the same step when the retriever raises
MainRetrievalFails ==
    /\ prog.pc = "detail"
    /\ Returned
    /\ LastRequest.status = "return"
    /\ \E error \in RetrieverErrors :
        LET original == AllFoodsEntry(parse_food(LastRequest.value)) IN
        /\ call' = [op |-> "finding_alternatives", data |-> LastRequest.value,
                    original |-> original, retrieved |-> Raise(error)]
        /\ ret' = Return(FindingAlternatives(analyzer, original, Raise(error)))
    /\ prog' = NextFood([prog EXCEPT !.all_foods = Append(@, call'.original)],
                        FoodPrinted(parse_food(LastRequest.value), ret'.value))
    /\ UNCHANGED <<analyzer, clientVars>>

\* after the loop: the overall analysis when a food was found, and the end
MainAnalyses ==
    /\ prog.pc = "analysis"
    /\ IF prog.all_foods = <<>>
       THEN /\ call' = MainStep("end")
            /\ ret' = NoReturn
            /\ prog' = [prog EXCEPT !.pc = "done", !.printed = ThanksLines]
       ELSE \E answer \in ChainAnswers :
            /\ call' = [op |-> "analyze_diet", location |-> prog.location,
                        foods |-> prog.all_foods, user_goals |-> UserGoals,
                        prompt |-> DietPrompt(prog.location, prog.all_foods, UserGoals)]
            /\ ret' = analyze_diet(prog.location, prog.all_foods, UserGoals, answer)
            /\ prog' = [prog EXCEPT !.pc = "done",
                            !.printed = AnalysisLines \o AnalysisPrinted(ret')
                                            \o ThanksLines]
    /\ UNCHANGED <<analyzer, clientVars>>

\* the GET of main's lookup is answered by the service
ServiceAnswers ==
    /\ frame[MainCaller].pc = "get"
    /\ Answer(prog.service, prog.lookup).status = "ok"
    /\ HttpGetOk(MainCaller, Answer(prog.service, prog.lookup).data)

\* the GET of main's lookup fails
ServiceFails ==
    /\ frame[MainCaller].pc = "get"
    /\ Answer(prog.service, prog.lookup).status = "fail"
    /\ HttpGetFails(MainCaller, Answer(prog.service, prog.lookup).failure)

NextMain ==
    \/ MainSetupFails
    \/ MainSetsUp
    \/ LoadSearches
    \/ LoadSearched
    \/ LoadDetailed
    \/ MainReadsInput
    \/ LoopSearches
    \/ LoopSearched
    \/ MainLookupFails
    \/ MainFindsAlternatives
    \/ MainRetrievalFails
    \/ MainAnalyses
    \/ CheckCacheHit(MainCaller)
    \/ CheckCacheMiss(MainCaller)
    \/ ServiceAnswers
    \/ ServiceFails
    \/ CacheSetAndReturn(MainCaller)

SpecMain == InitMain /\ [][NextMain]_vars

-----------------------------------------------------------------------------
(* Properties of the analyzer (checked under SpecAnalyzer) *)

IsCall(op) == call.op = op /\ ret.status = "return"

\* the rounding error allowed between a float score and its exact value, 2^-40:
\* scores are below 2^10 in size and a score takes seven roundings
ToleranceBits == MantissaBits - 13

\* the float x, not above 2^53 in size, is within 2^-ToleranceBits of N / D
WithinTolerance(x, N, D) ==
    IF x.sign = 0 THEN N = 0
    ELSE LET K == - x.exp
             X == BigMul(BigShl(x.mant, ToleranceBits), BigFromInt(D))
             Y == BigShl(BigFromInt(IF N < 0 THEN -N ELSE N), K + ToleranceBits)
             same_sign == (N > 0 /\ x.sign = 1) \/ (N < 0 /\ x.sign = -1)
             distance == IF ~ same_sign THEN BigAdd(X, Y)
                         ELSE IF BigCmp(X, Y) >= 0 THEN BigSub(X, Y)
                         ELSE BigSub(Y, X)
         IN  K >= 0 /\ BigCmp(distance, BigShl(BigFromInt(D), K)) <= 0

\* the foods of a ranked list, in order
FoodsOf(ranked) == [i \in 1 .. Len(ranked) |-> ranked[i].food]

IsPrefix(s, t) == Len(s) <= Len(t) /\ SubSeq(t, 1, Len(s)) = s

\* the foods that are ranked
RankFoods == UNION { { candidates[k] : k \in 1 .. Len(candidates) } :
                        candidates \in CandidateLists }

\* the overall score score_alternative gives each ranked food against each
\* original (the thresholds play no part in it)
RankScores ==
    [original \in RankOriginals |->
        [food \in RankFoods |->
            score_alternative(DefaultAnalyzer, original, food).overall_score]]

\* C1: for every original, candidate list and top_n >= 0, the list returned by
\* top_n_alternatives is sorted non-increasing by overall_score, is no longer
\* than top_n, and each returned food is one of the candidates and passes
\* is_better against the original on its own.
C1_RankedSortedBoundedQualified ==
    (IsCall("top_n_alternatives") /\ call.top_n >= 0) =>
        LET ranked == ret.value IN
        /\ Len(ranked) <= call.top_n
        /\ \A i \in 1 .. Len(ranked), j \in 1 .. Len(ranked) :
              i < j => FloatGE(ranked[i].overall_score, ranked[j].overall_score)
        /\ \A i \in 1 .. Len(ranked) :
              /\ \E k \in 1 .. Len(call.candidates) : call.candidates[k] = ranked[i].food
              /\ is_better(analyzer, call.original, ranked[i].food)
              /\ ranked[i].overall_score = RankScores[call.original][ranked[i].food]

\* C1 witness: three candidates that all qualify, the best given last, are
\* ranked with top_n = 2: two come back, the best one first although its score
\* is only the next float above the other's, and one candidate is cut.
C1_Witness ==
    /\ IsCall("top_n_alternatives")
    /\ call.original = Bagel
    /\ call.candidates = << EggWhites, EggWhitesCarton, ChickenSkewer >>
    /\ call.top_n = 2
    /\ \A k \in 1 .. 3 : is_better(analyzer, call.original, call.candidates[k])
    /\ FoodsOf(ret.value) = << ChickenSkewer, EggWhites >>
    /\ FloatGT(ret.value[1].overall_score, ret.value[2].overall_score)
    /\ WithinTolerance(ret.value[1].overall_score, 72, 100)
    /\ WithinTolerance(ret.value[2].overall_score, 72, 100)

\* C2: among the returned entries, those of equal overall_score keep the order
\* the candidates had in the input: for each returned score, the returned foods
\* with that score are the first ones, in input order, of the qualifying
\* candidates with that score.
C2_TiesKeepInputOrder ==
    (IsCall("top_n_alternatives") /\ call.top_n >= 0) =>
        \A i \in 1 .. Len(ret.value) :
            LET score == ret.value[i].overall_score
                TiedEntry(e) == e.overall_score = score
                TiedCandidate(c) ==
                    /\ is_better(analyzer, call.original, c)
                    /\ RankScores[call.original][c] = score
            IN  IsPrefix(FoodsOf(SelectSeq(ret.value, TiedEntry)),
                         SelectSeq(call.candidates, TiedCandidate))

\* C2 witness: two different foods of equal score come back next to each other,
\* the carton first, as they were given, with a better food between them in
\* the input.
C2_Witness ==
    /\ IsCall("top_n_alternatives")
    /\ call.original = Bagel
    /\ call.candidates = << EggWhitesCarton, ChickenSkewer, EggWhites >>
    /\ call.top_n = 3
    /\ FoodsOf(ret.value) = << ChickenSkewer, EggWhitesCarton, EggWhites >>
    /\ ret.value[2].overall_score = ret.value[3].overall_score

\* C3: whenever the alternative's protein exceeds the original's by less than
\* min_protein_increase, is_better returns false, whatever the carbs and fat.
C3_LowProteinNeverBetter ==
    (/\ IsCall("is_better")
     /\ Get(call.alternative, "protein", 0) - Get(call.original, "protein", 0)
            < analyzer.min_protein_increase)
        => ret.value = FALSE

\* C3 witness: the turkey sandwich {8, 35, 12} against the turkey melt
\* {9, 33, 11} under the default thresholds is rejected.
C3_Witness ==
    /\ IsCall("is_better")
    /\ analyzer = DefaultAnalyzer
    /\ call.original = TurkeySandwich
    /\ call.alternative = TurkeyMelt
    /\ ret.value = FALSE

\* amounts tried in place of the alternative's carbs or fat
OtherAmounts == Amounts \cup { 50 }

\* C4: when the original has 0 carbs the verdict of is_better is the same for
\* every carbs value of the alternative; when the original has 0 fat it is the
\* same for every fat value of the alternative.
C4_ZeroOriginalSkipsRatio ==
    IsCall("is_better") =>
        /\ Get(call.original, "carbs", 0) = 0 =>
              \A c \in OtherAmounts :
                  is_better(analyzer, call.original, WithKey(call.alternative, "carbs", c))
                      = ret.value
        /\ Get(call.original, "fat", 0) = 0 =>
              \A f \in OtherAmounts :
                  is_better(analyzer, call.original, WithKey(call.alternative, "fat", f))
                      = ret.value

\* C4 witness: a zero-carb steak against a shake with 50 g of carbs is accepted.
C4_Witness ==
    /\ IsCall("is_better")
    /\ call.original = Steak
    /\ call.alternative = Shake
    /\ Get(call.original, "carbs", 0) = 0
    /\ Get(call.alternative, "carbs", 0) > 0
    /\ ret.value = TRUE

\* C5: scoring a food against itself gives three zero deltas, an overall score
\* of 0 and the reasoning "Similar nutrition".
C5_ScoreOfSelf ==
    (IsCall("score_alternative") /\ call.original = call.alternative) =>
        /\ ret.value.protein_diff = 0
        /\ ret.value.carb_diff = 0
        /\ ret.value.fat_diff = 0
        /\ ret.value.overall_score = FloatZero
        /\ ret.value.reasoning = "Similar nutrition"

\* C5 witness: the pizza scored against itself.
C5_Witness ==
    /\ IsCall("score_alternative")
    /\ call.original = Pizza
    /\ call.alternative = Pizza
    /\ ret.value.reasoning = "Similar nutrition"

IsPizzaScenario(op) ==
    /\ IsCall(op)
    /\ analyzer = DefaultAnalyzer
    /\ call.original = Pizza
    /\ call.alternative = LeanPizza

\* what the pizza scenario gives apart from the reasoning text: is_better is
\* true; the deltas are 13, 18, 3; the score is 0.4*13/12 + 0.3*18/33 + 0.3*3/10
\* = 2267/3300, which is 0.687 to three places
PizzaScenarioNumbers ==
    /\ IsPizzaScenario("is_better") => ret.value = TRUE
    /\ IsPizzaScenario("score_alternative") =>
          /\ ret.value.protein_diff = 13
          /\ ret.value.carb_diff = 18
          /\ ret.value.fat_diff = 3
          /\ WithinTolerance(ret.value.overall_score, 2267, 3300)
          /\ FloatGE(ret.value.overall_score, FloatDiv(6865, 10000))
          /\ FloatGT(FloatDiv(6875, 10000), ret.value.overall_score)

\* C6 as claimed: original {12, 33, 10} against candidate {25, 15, 7} under the
\* default thresholds qualifies, has deltas 13, 18, 3 and a score of about
\* 0.687, and the reasoning reads "+13g protein, +18g carbs, +3g fat".
C6_AsClaimed ==
    /\ PizzaScenarioNumbers
    /\ IsPizzaScenario("score_alternative") =>
          ret.value.reasoning = "+13g protein, +18g carbs, +3g fat"

\* C6 amended: the same scenario, with the reasoning as score_alternative
\* writes it, reductions of carbs and fat carrying a minus sign:
\* "+13g protein, -18g carbs, -3g fat".
C6_PizzaScenario ==
    /\ PizzaScenarioNumbers
    /\ IsPizzaScenario("score_alternative") =>
          ret.value.reasoning = "+13g protein, -18g carbs, -3g fat"

\* C6 witness: the scenario has been scored.
C6_Witness ==
    /\ IsPizzaScenario("score_alternative")
    /\ ret.value.carb_diff = 18
    /\ ret.value.reasoning = "+13g protein, -18g carbs, -3g fat"

\* C7: top_n_alternatives returns the empty list, and raises nothing, whenever
\* the candidate list is empty or no candidate passes is_better, for every
\* original and top_n >= 0.
C7_NothingQualifiesGivesEmpty ==
    (/\ call.op = "top_n_alternatives"
     /\ call.top_n >= 0
     /\ \A k \in 1 .. Len(call.candidates) :
            ~ is_better(analyzer, call.original, call.candidates[k]))
        => ret = Return(<<>>)

\* C7 witness: two candidates, neither better than the pizza, top_n = 2.
C7_Witness ==
    /\ call.op = "top_n_alternatives"
    /\ call.original = Pizza
    /\ analyzer = DefaultAnalyzer
    /\ call.candidates = << Shake, EggWhites >>
    /\ call.top_n = 2
    /\ ret = Return(<<>>)

-----------------------------------------------------------------------------
(* Properties of create_query (checked under SpecQuery) *)

\* C8: create_query with an empty food list fails, for every goal text: it
\* raises the division-by-zero error of the average (the invalid-input failure
\* of the design) and returns no query string.
C8_EmptyFoodsRaises ==
    (call.op = "create_query" /\ call.foods = <<>>) =>
        /\ ret.status = "raise"
        /\ ret.exc = "ZeroDivisionError"

\* C8 witness: the call with no foods and the goal "improve nutrition".
C8_Witness ==
    /\ call.op = "create_query"
    /\ call.foods = <<>>
    /\ call.goals = "improve nutrition"
    /\ ret = Raise("ZeroDivisionError")

-----------------------------------------------------------------------------
(* Properties of the cached client (checked under SpecClient) *)

IsLookup(i) == i <= Len(history) /\ history[i].op = "make_request"

\* the number of external requests issued by the first i finished operations
RECURSIVE RequestsThrough(_)
RequestsThrough(i) ==
    IF i = 0 THEN 0
    ELSE RequestsThrough(i - 1)
            + (IF history[i].op = "make_request" THEN history[i].requests ELSE 0)

\* C9 as claimed: from an empty cache, the first lookup of a key issues one
\* external request; if it returns, a second lookup of the same key issues
\* none and returns the stored response, whatever that response is; a third
\* lookup, of a different key, then issues exactly one more request.
C9_AsClaimed ==
    /\ IsLookup(1) => history[1].requests = 1
    /\ (/\ IsLookup(1) /\ IsLookup(2)
        /\ history[1].status = "return"
        /\ history[2].key = history[1].key)
        => /\ history[2].requests = 0
           /\ history[2].status = "return"
           /\ history[2].value = history[1].value
           /\ (IsLookup(3) /\ history[3].key # history[1].key)
                 => /\ history[3].requests = 1
                    /\ RequestsThrough(3) = 2

\* C10: a lookup whose external request fails leaves the cache as it found
\* it; the next lookup of the same key issues an external request again and,
\* when that one succeeds, returns its response and leaves it in the cache.
C10_FailureNotCached ==
    \A i \in 1 .. Len(history) :
        (IsLookup(i) /\ history[i].status = "raise") =>
            /\ history[i].requests = 1
            /\ history[i].cache_after = history[i].cache_before
            /\ (IsLookup(i + 1) /\ history[i + 1].key = history[i].key) =>
                  /\ history[i + 1].requests = 1
                  /\ requests[RequestsThrough(i + 1)].key = history[i].key
                  /\ history[i + 1].status = "return" =>
                        /\ requests[RequestsThrough(i + 1)].outcome = "ok"
                        /\ history[i + 1].value = requests[RequestsThrough(i + 1)].data
                        /\ history[i].key \in DOMAIN history[i + 1].cache_after
                        /\ history[i + 1].cache_after[history[i].key]
                                = history[i + 1].value

\* C10 witness: the first lookup times out on an empty cache, the second
\* lookup of the same key gets the pizza record from the service and stores it.
C10_Witness ==
    /\ IsLookup(1) /\ IsLookup(2)
    /\ history[1].status = "raise"
    /\ history[1].value = "API request failed: ReadTimeout"
    /\ history[1].cache_after = <<>>
    /\ history[2].key = history[1].key
    /\ history[2].status = "return"
    /\ history[2].value = PizzaJson
    /\ history[2].requests = 1
    /\ Len(requests) = 2
    /\ cache = WithKey(<<>>, history[1].key, PizzaJson)

\* C11: a lookup whose external request fails ends by raising one error whose
\* text carries the cause of the failure, after exactly one external request
\* (no retry); it never returns a result, empty or otherwise, in place of the
\* error.  Conversely a lookup raises only when its request failed.
C11_FailureSurfacesOnce ==
    /\ \A i \in 1 .. Len(requests) :
          requests[i].outcome # "ok" =>
              \E j \in 1 .. Len(history) :
                  /\ IsLookup(j)
                  /\ RequestsThrough(j) = i
                  /\ history[j].requests = 1
                  /\ history[j].key = requests[i].key
                  /\ history[j].status = "raise"
                  /\ history[j].value = "API request failed: " \o requests[i].outcome
    /\ \A j \in 1 .. Len(history) :
          (IsLookup(j) /\ history[j].status = "raise") =>
              /\ history[j].requests = 1
              /\ requests[RequestsThrough(j)].outcome \in Failures

\* C11 witness: the only lookup so far met a non-success status and raised.
C11_Witness ==
    /\ Len(history) = 1
    /\ IsLookup(1)
    /\ history[1].status = "raise"
    /\ history[1].value = "API request failed: HTTPError"
    /\ history[1].requests = 1
    /\ Len(requests) = 1
    /\ requests[1].outcome = "HTTPError"

-----------------------------------------------------------------------------
(* Further properties of the analyzer (checked under SpecAnalyzer) *)

\* the three rules of is_better, written on the amounts: the increase reaches
\* the minimum, and each ratio rule holds or its original amount is 0
ThreeRules(self, original, alternative) ==
    /\ Get(alternative, "protein", 0) - Get(original, "protein", 0)
            >= self.min_protein_increase
    /\ \/ Get(original, "carbs", 0) = 0
       \/ Get(alternative, "carbs", 0) * self.max_carb_ratio.den
            <= self.max_carb_ratio.num * Get(original, "carbs", 0)
    /\ \/ Get(original, "fat", 0) = 0
       \/ Get(alternative, "fat", 0) * self.max_fat_ratio.den
            <= self.max_fat_ratio.num * Get(original, "fat", 0)

\* C13: is_better returns true if and only if all three rules hold, with
\* inclusive bounds: the protein increase is at least min_protein_increase, the
\* original has 0 carbs or the carb ratio is at most max_carb_ratio, and the
\* original has 0 fat or the fat ratio is at most max_fat_ratio.
C13_BetterIffThreeRules ==
    IsCall("is_better") =>
        (ret.value = TRUE <=> ThreeRules(analyzer, call.original, call.alternative))

\* C13 witness: the bagel {10, 10, 10} against the protein bagel {13, 8, 8}
\* under the defaults: an increase of exactly 3 and ratios of exactly 0.8 pass.
C13_Witness ==
    /\ IsCall("is_better")
    /\ analyzer = DefaultAnalyzer
    /\ call.original = Bagel
    /\ call.alternative = ProteinBagel
    /\ call.alternative.protein - call.original.protein = analyzer.min_protein_increase
    /\ call.alternative.carbs * analyzer.max_carb_ratio.den
          = analyzer.max_carb_ratio.num * call.original.carbs
    /\ call.alternative.fat * analyzer.max_fat_ratio.den
          = analyzer.max_fat_ratio.num * call.original.fat
    /\ ret.value = TRUE

\* max(amount, 1) of the scoring denominators
AtLeastOne(amount) == IF amount < 1 THEN 1 ELSE amount

\* C14: score_alternative returns protein_diff = alt.protein - orig.protein,
\* carb_diff = orig.carbs - alt.carbs, fat_diff = orig.fat - alt.fat, and an
\* overall score equal, up to the rounding of float arithmetic, to
\* 0.4 * protein_diff / max(orig.protein, 1) + 0.3 * carb_diff / max(orig.carbs, 1)
\* + 0.3 * fat_diff / max(orig.fat, 1); the divisor is never 0, also when an
\* original amount is 0.
C14_DeltasAndOverallScore ==
    IsCall("score_alternative") =>
        LET pd == Get(call.alternative, "protein", 0) - Get(call.original, "protein", 0)
            cd == Get(call.original, "carbs", 0) - Get(call.alternative, "carbs", 0)
            fd == Get(call.original, "fat", 0) - Get(call.alternative, "fat", 0)
            P == AtLeastOne(Get(call.original, "protein", 0))
            C == AtLeastOne(Get(call.original, "carbs", 0))
            F == AtLeastOne(Get(call.original, "fat", 0))
        IN  /\ ret.status = "return"
            /\ ret.value.protein_diff = pd
            /\ ret.value.carb_diff = cd
            /\ ret.value.fat_diff = fd
            \* the sum over the common denominator 10 * P * C * F
            /\ WithinTolerance(ret.value.overall_score,
                               4 * pd * C * F + 3 * cd * P * F + 3 * fd * P * C,
                               10 * P * C * F)

\* C14 witness: the steak {10, 0, 10} against the shake {13, 50, 8}: the carb
\* axis divides by 1, the score is 0.12 - 15 + 0.06 = -14.82.
C14_Witness ==
    /\ IsCall("score_alternative")
    /\ call.original = Steak
    /\ call.alternative = Shake
    /\ Get(call.original, "carbs", 0) = 0
    /\ ret.value.carb_diff = -50
    /\ WithinTolerance(ret.value.overall_score, -1482, 100)
    /\ ret.value.overall_score.sign = -1

\* C15: the reasoning text is fixed by the three deltas: the axes whose delta
\* is strictly positive, in the order protein, carbs, fat, as "+{d}g protein",
\* "-{d}g carbs", "-{d}g fat", joined by ", "; it is "Similar nutrition" if
\* and only if no delta is strictly positive.  {d} is the delta as Python
\* writes it: 13 for an int, 13.0 for a float.
C15_ReasoningFromDeltas ==
    IsCall("score_alternative") =>
        LET p == ret.value.protein_diff
            c == ret.value.carb_diff
            f == ret.value.fat_diff
            Written(d, key) == IF IsFloat(ret.value, key)
                             THEN ToString(d) \o ".0" ELSE ToString(d)
            protein == "+" \o Written(p, "protein_diff") \o "g protein"
            carbs == "-" \o Written(c, "carb_diff") \o "g carbs"
            fat == "-" \o Written(f, "fat_diff") \o "g fat"
        IN  /\ ret.value.reasoning =
                  CASE p > 0 /\ c > 0 /\ f > 0 -> protein \o ", " \o carbs \o ", " \o fat
                    [] p > 0 /\ c > 0 /\ f <= 0 -> protein \o ", " \o carbs
                    [] p > 0 /\ c <= 0 /\ f > 0 -> protein \o ", " \o fat
                    [] p > 0 /\ c <= 0 /\ f <= 0 -> protein
                    [] p <= 0 /\ c > 0 /\ f > 0 -> carbs \o ", " \o fat
                    [] p <= 0 /\ c > 0 /\ f <= 0 -> carbs
                    [] p <= 0 /\ c <= 0 /\ f > 0 -> fat
                    [] p <= 0 /\ c <= 0 /\ f <= 0 -> "Similar nutrition"
            /\ (ret.value.reasoning = "Similar nutrition")
                  <=> (p <= 0 /\ c <= 0 /\ f <= 0)

\* C15 witness: the pizza {12, 33, 10} against the Caesar salad {30, 10, 8}
\* improves all three axes.
C15_Witness ==
    /\ IsCall("score_alternative")
    /\ call.original = Pizza
    /\ call.alternative = CaesarSalad
    /\ ret.value.reasoning = "+18g protein, -23g carbs, -2g fat"

\* the thresholds and the amounts for which the positive-score property holds
PositiveScoreCase(self, original) ==
    /\ self.min_protein_increase > 0
    /\ self.max_carb_ratio.num > 0 /\ self.max_carb_ratio.num <= self.max_carb_ratio.den
    /\ self.max_fat_ratio.num > 0 /\ self.max_fat_ratio.num <= self.max_fat_ratio.den
    /\ Get(original, "carbs", 0) > 0
    /\ Get(original, "fat", 0) > 0

\* C19: with min_protein_increase > 0 and both maximum ratios in (0, 1], and an
\* original whose carbs and fat are above 0, an alternative that satisfies the
\* three rules of is_better has an overall score above 0, and so has every
\* entry top_n_alternatives returns for such an original.
C19_QualifyingScoresPositive ==
    /\ (/\ IsCall("score_alternative")
        /\ PositiveScoreCase(analyzer, call.original)
        /\ ThreeRules(analyzer, call.original, call.alternative))
          => FloatGT(ret.value.overall_score, FloatZero)
    /\ (/\ IsCall("top_n_alternatives")
        /\ PositiveScoreCase(analyzer, call.original))
          => \A i \in 1 .. Len(ret.value) :
                FloatGT(ret.value[i].overall_score, FloatZero)

\* C19 witness: the ranking of the example run returns the Caesar salad first,
\* scored above 0.
C19_Witness ==
    /\ IsCall("top_n_alternatives")
    /\ PositiveScoreCase(analyzer, call.original)
    /\ call.original = Pizza
    /\ call.candidates = ExampleAlternatives
    /\ Len(ret.value) >= 1
    /\ ret.value[1].food = CaesarSalad
    /\ FloatGT(ret.value[1].overall_score, FloatZero)

\* a qualifying alternative scored below 0 exists when the original has 0
\* carbs: the shake satisfies the three rules against the steak and scores
\* below 0
C19_ZeroCarbsCanScoreNegative ==
    /\ IsCall("score_alternative")
    /\ call.original = Steak
    /\ call.alternative = Shake
    /\ ThreeRules(analyzer, call.original, call.alternative)
    /\ FloatGT(FloatZero, ret.value.overall_score)

-----------------------------------------------------------------------------
(* Properties of create_query (checked under SpecQuery) *)

\* the names of foods[i..], each preceded by a space
RECURSIVE SpacedNamesFrom(_, _)
SpacedNamesFrom(foods, i) ==
    IF i > Len(foods) THEN ""
    ELSE " " \o foods[i].name \o SpacedNamesFrom(foods, i + 1)

\* C16: for non-empty foods, create_query returns, joined by spaces and in this
\* order: "high protein alternatives" iff the average protein is below 15,
\* "low carb substitutes" iff the average carbs is above 30, the goal text,
\* and "alternatives to " followed by the names joined by spaces in input order.
C16_QueryClauses ==
    (/\ IsCall("create_query")
     /\ Len(call.foods) > 0
     /\ \A i \in 1 .. Len(call.foods) : "name" \in DOMAIN call.foods[i])
        => LET n == Len(call.foods)
               low_protein == SumOf(call.foods, "protein") < 15 * n
               high_carbs == SumOf(call.foods, "carbs") > 30 * n
               naming == "alternatives to" \o SpacedNamesFrom(call.foods, 1)
               tail == call.goals \o " " \o naming
           IN  ret = Return(
                CASE low_protein /\ high_carbs ->
                        "high protein alternatives low carb substitutes " \o tail
                  [] low_protein /\ ~ high_carbs -> "high protein alternatives " \o tail
                  [] ~ low_protein /\ high_carbs -> "low carb substitutes " \o tail
                  [] ~ low_protein /\ ~ high_carbs -> tail)

\* C16 witness: the cauliflower pizza and the bagel average exactly 15 g of
\* protein, so the protein clause is absent; goal and names are present.
C16_Witness ==
    /\ IsCall("create_query")
    /\ call.foods = << CauliflowerPizza, Bagel >>
    /\ SumOf(call.foods, "protein") = 15 * Len(call.foods)
    /\ call.goals = "improve nutrition"
    /\ ret = Return("improve nutrition alternatives to "
                        \o CauliflowerPizza.name \o " " \o Bagel.name)

-----------------------------------------------------------------------------
(* Properties of the "Finding alternatives" step (checked under SpecMain) *)

IsFindingStep == call.op = "finding_alternatives" /\ ret.status = "return"

\* an amount that is a number >= 0
IsAmount(v) == v # None /\ v[1] >= 0

\* C12 as claimed: every record handed to top_n_alternatives by main, the
\* original built from parse_food and each candidate built from
\* find_alternatives, has protein, carbs and fat that are numbers >= 0 (an
\* absent nutrient is 0, never None), so the ranking never fails on arithmetic.
C12_AsClaimed ==
    (IsFindingStep /\ call.retrieved.status = "return") =>
        /\ call.original.protein >= 0
        /\ call.original.carbs >= 0
        /\ call.original.fat >= 0
        /\ \A i \in 1 .. Len(ret.value.candidates) :
              /\ IsAmount(ret.value.candidates[i].protein)
              /\ IsAmount(ret.value.candidates[i].carbs)
              /\ IsAmount(ret.value.candidates[i].fat)
        /\ ret.value.ranking.status = "return"

\* the "Could not find alternatives" lines the step can print
CouldNotLines ==
    { CouldNotLine(m) :
        m \in RetrieverErrors
               \cup { "'score'" }
               \cup { Unsupported("-", "NoneType", number) : number \in { "int", "float" } }
               \cup { Unsupported("/", "NoneType", number) : number \in { "int", "float" } }
               \cup { Unsupported("-", number, "NoneType") : number \in { "int", "float" } } }

PrintedCouldNot ==
    \E k \in 1 .. Len(ret.value.printed) : ret.value.printed[k] \in CouldNotLines

\* C18 as claimed: when the ranking returns a non-empty list the alternatives
\* are printed under "Better alternatives:", one line each, and no failure
\* line; when it returns an empty list the "No better alternatives found"
\* line is printed; the "Could not find alternatives" line is printed only
\* when the retrieval or the ranking raised.
C18_AsClaimed ==
    IsFindingStep =>
        /\ (ret.value.ranking.status = "return" /\ ret.value.ranking.value # <<>>) =>
              /\ Len(ret.value.printed) = 2 + Len(ret.value.ranking.value)
              /\ ret.value.printed[2] = BetterLine
              /\ ~ PrintedCouldNot
        /\ (ret.value.ranking.status = "return" /\ ret.value.ranking.value = <<>>) =>
              ret.value.printed = << FindingLine, NoBetterLine >>
        /\ PrintedCouldNot =>
              (call.retrieved.status = "raise" \/ ret.value.ranking.status = "raise")

-----------------------------------------------------------------------------
(* Properties of concurrent lookups (checked under SpecConcurrent) *)

\* the external source is stable for a key: every request for it so far was
\* answered, and with the same body d
StableSource(key, d) ==
    \A r \in 1 .. Len(requests) :
        requests[r].key = key => (requests[r].outcome = "ok" /\ requests[r].data = d)

\* lookups i and j, finished in that order by different callers, raced on a key
\* neither found in the cache: j read the cache before i wrote it
RacedOnUncachedKey(i, j) ==
    /\ i < j
    /\ IsLookup(i) /\ IsLookup(j)
    /\ history[i].caller # history[j].caller
    /\ history[i].key = history[j].key
    /\ history[i].key \notin DOMAIN history[i].cache_before
    /\ history[j].key \notin DOMAIN history[j].cache_before

\* C17 as claimed: when two callers race on the same uncached key and the
\* source answers that key with one stable body, the two lookups issue at most
\* two external requests, both return the body, the cache entry left for the
\* key is the body, and every later lookup of the key returns it from the
\* cache without an external request.
C17_AsClaimed ==
    \A i, j \in 1 .. Len(history), d \in Responses :
        (RacedOnUncachedKey(i, j) /\ StableSource(history[i].key, d)) =>
            /\ history[i].requests + history[j].requests <= 2
            /\ history[i].status = "return" /\ history[i].value = d
            /\ history[j].status = "return" /\ history[j].value = d
            /\ CacheGet(history[j].cache_after, history[j].key) = Some(d)
            /\ \A m \in j + 1 .. Len(history) :
                  (IsLookup(m) /\ history[m].key = history[i].key) =>
                      /\ history[m].requests = 0
                      /\ history[m].status = "return"
                      /\ history[m].value = d

\* the same statement for the bodies the cache test takes for a stored value
C17_ForTruthyBodies ==
    \A i, j \in 1 .. Len(history), d \in { b \in Responses : Truthy(Some(b)) } :
        (RacedOnUncachedKey(i, j) /\ StableSource(history[i].key, d)) =>
            /\ history[i].requests + history[j].requests <= 2
            /\ history[i].status = "return" /\ history[i].value = d
            /\ history[j].status = "return" /\ history[j].value = d
            /\ CacheGet(history[j].cache_after, history[j].key) = Some(d)
            /\ \A m \in j + 1 .. Len(history) :
                  (IsLookup(m) /\ history[m].key = history[i].key) =>
                      /\ history[m].requests = 0
                      /\ history[m].status = "return"
                      /\ history[m].value = d

====
